---- MODULE Spec2Model ----
(***************************************************************************)
(* A model of github.com/theplant/resources: the continuation-passing      *)
(* provider combinators (providers.go) and the Gorm-backed resource        *)
(* handlers (handler.go), as state machines over one request at a time.    *)
(*                                                                         *)
(* A provider applied to a handler is a gin.HandlerFunc.  Go closures are  *)
(* modelled defunctionalised: a handler (continuation) is a sequence of    *)
(* frames, the head being the closure that is called next and the tail the *)
(* `accepter` that closure has captured.  Applying a provider (which Go    *)
(* does eagerly, when the route is built) is the pure operator Apply;      *)
(* calling a closure at request time is an action.                         *)
(***************************************************************************)
EXTENDS Integers, Sequences, FiniteSets, TLC

VARIABLES
    ctl,        \* where the request's control is: the call about to be made
    trace,      \* the stages that have run for the current request, in order
    request,    \* the current request: the composed chain, its terminal
                \* handler, the route parameters and the body
    response,   \* what the request's gin.Context has written so far
    table,      \* the resources table of the database: ID -> row
    dbLog,      \* the database calls of the current request and their results
    before,     \* the resources table as it was when the request arrived
    build,      \* which generation of handler.go serves the requests
    AcceptableError,    \* the package variable AcceptableError
    parked,     \* the context of a second request in flight, while the other runs
    record      \* a Record on which SetOwner and SetParent are called

\* what the composition layer neither reads nor writes
resource == <<response, table, dbLog, before, build, AcceptableError, parked, record>>

vars == <<ctl, trace, request, resource>>

----------------------------------------------------------------------------
(* Bounds *)

NumUsers == 2       \* identities 1..NumUsers
MaxDepth == 4       \* nesting depth of the composed providers
MaxRecords == 2     \* resources ever created
MaxCalls == 3       \* calls of SetOwner and SetParent on one Record

\* the characters and lengths of the route parameters tried
Alphabet == {"0", "1", "2", "a"}
ParamLengths == 1..2

\* the Text values submitted
Texts == {"a", "b"}

----------------------------------------------------------------------------
(* Values threaded through the continuations *)

Nil == [kind |-> "nil"]

\* *User of handler_test.go: an identity that is also a DBModel
UserValues == {[kind |-> "User", ID |-> i] : i \in 1..NumUsers}

\* an identity that has GetID only (does not satisfy DBModel)
PlainIdentities == {[kind |-> "Identity", ID |-> 1]}

Identities == UserValues \cup PlainIdentities

\* *Resource of handler_test.go as a provider hands it on: the
\* &Resource{Model: gorm.Model{ID: 2}, UserID: user.ID} of TestMergeWithCurry
ResourceValues == {[kind |-> "Resource", ID |-> 2, UserID |-> 1, User |-> 0, Text |-> ""]}

----------------------------------------------------------------------------
(* Provider expressions: how a chain was composed (providers.go) *)

\* the two generations of providers.go name the adapters Lift... and Curry...
APIs == {"Lift", "Curry"}

RECURSIVE UserProviders(_, _)
\* the UserProvider values composable to nesting depth d (providers.go has
\* no LiftUserProcessor)
UserProviders(d, api) ==
    IF d = 0 THEN {[c |-> api \o "UserProvider"]}
    ELSE LET prev == UserProviders(d - 1, api)
         IN  prev \cup {[c |-> "CurryUserProcessor", provider |-> p] :
                           p \in IF api = "Curry" THEN prev ELSE {}}

RECURSIVE ModelProviders(_, _)
RECURSIVE UserModelProviders(_, _)
\* the ModelProvider values composable to nesting depth d
ModelProviders(d, api) ==
    IF d = 0 THEN {[c |-> api \o "ModelProvider"]}
    ELSE LET prev == ModelProviders(d - 1, api)
         IN  prev
             \cup {[c |-> api \o "ModelProcessor", provider |-> p] : p \in prev}
             \cup {[c |-> "UserAsModel", mP |-> p] : p \in UserProviders(d - 1, api)}
             \cup {[c |-> "DiscardUser", p |-> p] :
                      p \in UserModelProviders(d - 1, api)}

\* the UserModelProvider values composable to nesting depth d
UserModelProviders(d, api) ==
    IF d = 0 THEN {}
    ELSE LET prev == UserModelProviders(d - 1, api)
         IN  prev
             \cup {[c |-> "Merge", uP |-> u, mP |-> m] :
                      u \in UserProviders(d - 1, api),
                      m \in ModelProviders(d - 1, api)}
             \cup {[c |-> api \o "UserModelProcessor", provider |-> p] : p \in prev}

----------------------------------------------------------------------------
(* Applying a provider to a handler (providers.go).  path names the        *)
(* position of the provider in the composed chain: <<>> is the outermost   *)
(* combinator, p \o <<1>> and p \o <<2>> its first and second argument.    *)

RECURSIVE Apply(_, _, _)

\* Merge with its providers nested the other way round: uP is the outer stage
MergeUserFirst(uP, mP, path, accepter) ==
    Apply(uP, path \o <<1>>,
          <<[f |-> "Merge.func1", inner |-> mP, innerPath |-> path \o <<2>>]>>
              \o accepter)

\* Merge that hands the accepting closure to mP directly and never runs uP
MergeWithoutUser(uP, mP, path, accepter) ==
    Apply(mP, path \o <<2>>, <<[f |-> "Merge.func2", model |-> Nil]>> \o accepter)

\* func Merge(uP, mP): return mP(func(ctx, model) { uP(func(ctx, user) {
\* accepter(ctx, user, model) })(ctx) }).  The outer closure (func1)
\* captures uP and the accepter; it is handed to mP.
Merge(uP, mP, path, accepter) ==
    Apply(mP, path \o <<2>>,
          <<[f |-> "Merge.func1", inner |-> uP, innerPath |-> path \o <<1>>]>>
              \o accepter)

\* func UserAsModel(mP): return mP(func(ctx, user) { accepter(ctx, user.(DBModel)) })
UserAsModel(mP, path, accepter) ==
    Apply(mP, path \o <<1>>, <<[f |-> "UserAsModel.func1"]>> \o accepter)

\* func DiscardUser(p): return p(func(ctx, _, model) { accepter(ctx, model) })
DiscardUser(p, path, accepter) ==
    Apply(p, path \o <<1>>, <<[f |-> "DiscardUser.func1"]>> \o accepter)

\* func CurryUserProcessor(fn)(provider): return provider(func(ctx, user) {
\* fn(accepter, ctx, user) })
CurryUserProcessor(provider, path, accepter) ==
    Apply(provider, path \o <<1>>,
          <<[f |-> "CurryUserProcessor.func1", path |-> path]>> \o accepter)

\* func CurryModelProcessor(fn)(provider): return provider(func(ctx, model) {
\* fn(accepter, ctx, model) })
CurryModelProcessor(provider, path, accepter) ==
    Apply(provider, path \o <<1>>,
          <<[f |-> "CurryModelProcessor.func1", path |-> path]>> \o accepter)

\* a processor whose check is queued behind the checks applied outside it,
\* right before the terminal handler
CurryUserModelProcessorLast(provider, path, accepter) ==
    Apply(provider, path \o <<1>>,
          SubSeq(accepter, 1, Len(accepter) - 1)
              \o <<[f |-> "CurryUserModelProcessor.func1", path |-> path]>>
              \o <<accepter[Len(accepter)]>>)

\* func CurryUserModelProcessor(fn)(provider): return provider(func(ctx, user,
\* model) { fn(accepter, ctx, user, model) })
CurryUserModelProcessor(provider, path, accepter) ==
    Apply(provider, path \o <<1>>,
          <<[f |-> "CurryUserModelProcessor.func1", path |-> path]>> \o accepter)

\* func CurryUserProvider(fn): return func(handler) { return func(ctx) {
\* fn(handler, ctx) } }: the gin.HandlerFunc that will call fn
CurryUserProvider(path, handler) ==
    [fn |-> "CurryUserProvider", path |-> path, handler |-> handler]

\* func CurryModelProvider(fn): the same for a DBModel provider
CurryModelProvider(path, handler) ==
    [fn |-> "CurryModelProvider", path |-> path, handler |-> handler]

\* func LiftUserProvider(fn): return func(handler) { return func(ctx) {
\* fn(handler, ctx) } }
LiftUserProvider(path, handler) ==
    [fn |-> "LiftUserProvider", path |-> path, handler |-> handler]

\* func LiftModelProvider(fn): the same for a DBModel provider
LiftModelProvider(path, handler) ==
    [fn |-> "LiftModelProvider", path |-> path, handler |-> handler]

\* func LiftModelProcessor(fn)(provider): return provider(func(ctx, model) {
\* fn(accepter, ctx, model) })
LiftModelProcessor(provider, path, accepter) ==
    Apply(provider, path \o <<1>>,
          <<[f |-> "LiftModelProcessor.func1", path |-> path]>> \o accepter)

\* func LiftUserModelProcessor(fn)(provider): return provider(func(ctx, user,
\* model) { fn(accepter, ctx, user, model) })
LiftUserModelProcessor(provider, path, accepter) ==
    Apply(provider, path \o <<1>>,
          <<[f |-> "LiftUserModelProcessor.func1", path |-> path]>> \o accepter)

\* provider(accepter): the gin.HandlerFunc a composed provider yields
Apply(p, path, accepter) ==
    CASE p.c = "Merge" -> Merge(p.uP, p.mP, path, accepter)
      [] p.c = "UserAsModel" -> UserAsModel(p.mP, path, accepter)
      [] p.c = "DiscardUser" -> DiscardUser(p.p, path, accepter)
      [] p.c = "CurryUserProcessor" -> CurryUserProcessor(p.provider, path, accepter)
      [] p.c = "CurryModelProcessor" -> CurryModelProcessor(p.provider, path, accepter)
      [] p.c = "CurryUserModelProcessor" ->
            CurryUserModelProcessor(p.provider, path, accepter)
      [] p.c = "CurryUserProvider" -> CurryUserProvider(path, accepter)
      [] p.c = "CurryModelProvider" -> CurryModelProvider(path, accepter)
      [] p.c = "LiftUserProvider" -> LiftUserProvider(path, accepter)
      [] p.c = "LiftModelProvider" -> LiftModelProvider(path, accepter)
      [] p.c = "LiftModelProcessor" -> LiftModelProcessor(p.provider, path, accepter)
      [] p.c = "LiftUserModelProcessor" ->
            LiftUserModelProcessor(p.provider, path, accepter)

----------------------------------------------------------------------------
(* Control *)

\* handlerFunc(ctx): the call of a gin.HandlerFunc
Invoke(handlerFunc) == [pc |-> "call"] @@ handlerFunc

\* handler(ctx, user, model): the call of a continuation
Continue(handler, user, model) ==
    [pc |-> "handler", handler |-> handler, user |-> user, model |-> model]

\* the request's control has returned to the router
Returned == [pc |-> "done", panicked |-> FALSE]

\* a panic left the handler
Panicked == [pc |-> "done", panicked |-> TRUE]

\* one entry of the trace: a stage's function ran with these values, and
\* did (next) or did not call the handler it was given
Ran(stage, path, user, model, next) ==
    [stage |-> stage, path |-> path, user |-> user, model |-> model, next |-> next]

----------------------------------------------------------------------------
(* The response a gin.Context builds.  The status is pending until the     *)
(* first body write sends the headers; later status and header calls       *)
(* cannot change what was sent.                                            *)

\* a fresh gin.Context: status 200 pending, nothing written
NoResponse ==
    [status |-> 200, written |-> FALSE, body |-> <<>>, location |-> Nil,
     calls |-> <<>>]

\* ctx.Writer.WriteHeader(code)
WriteHeader(r, code) == IF r.written THEN r ELSE [r EXCEPT !.status = code]

\* ctx.AbortWithStatus(code), ctx.AbortWithError(code, err)
AbortWithStatus(r, code) ==
    [WriteHeader(r, code) EXCEPT !.calls = Append(@, <<"Abort", code>>)]

\* ctx.Header("Location", value)
HeaderLocation(r, value) ==
    [(IF r.written THEN r ELSE [r EXCEPT !.location = value])
        EXCEPT !.calls = Append(@, <<"Header", 0>>)]

\* ctx.JSON(code, obj), ctx.String(code, obj)
JSON(r, code, obj) ==
    [WriteHeader(r, code) EXCEPT !.written = TRUE,
                                 !.body = Append(@, obj),
                                 !.calls = Append(@, <<"JSON", code>>)]

----------------------------------------------------------------------------
(* The composition layer at request time *)

\* the values a CurryUserProvider's fn may call its handler with ("comes
\* from somewhere"): an identity, or the nil User of `var u resources.User`
ProvidedUsers == Identities \cup {Nil}

\* the values a CurryModelProvider's fn may call its handler with: a *User,
\* a *Resource, or the nil DBModel of `var model resources.DBModel`
ProvidedModels == UserValues \cup ResourceValues \cup {Nil}

\* a user-resolving fn that answers the request and calls the handler as well
ProvideUserAnswersAndCalls ==
    /\ ctl.pc = "call"
    /\ ctl.fn = "CurryUserProvider"
    /\ \E u \in ProvidedUsers :
          /\ trace' = Append(trace, Ran(ctl.fn, ctl.path, u, Nil, FALSE))
          /\ ctl' = Continue(ctl.handler, u, Nil)
    /\ UNCHANGED <<request, resource>>

\* CurryUserProvider's func(ctx) { fn(handler, ctx) }: fn resolves an
\* identity and calls handler with it, or ends the request itself
ProvideUser ==
    /\ ctl.pc = "call"
    /\ ctl.fn = "CurryUserProvider"
    /\ \/ \E u \in ProvidedUsers :
            /\ trace' = Append(trace, Ran(ctl.fn, ctl.path, u, Nil, TRUE))
            /\ ctl' = Continue(ctl.handler, u, Nil)
       \/ /\ trace' = Append(trace, Ran(ctl.fn, ctl.path, Nil, Nil, FALSE))
          /\ ctl' = Returned
    /\ UNCHANGED <<request, resource>>

\* a model-resolving fn that calls the handler although it found nothing
ProvideModelValueCallsAnyway ==
    /\ ctl.pc = "call"
    /\ ctl.fn = "CurryModelProvider"
    /\ \/ \E m \in ProvidedModels :
            /\ trace' = Append(trace, Ran(ctl.fn, ctl.path, Nil, m, TRUE))
            /\ ctl' = Continue(ctl.handler, Nil, m)
       \/ /\ trace' = Append(trace, Ran(ctl.fn, ctl.path, Nil, Nil, FALSE))
          /\ ctl' = Continue(ctl.handler, Nil, Nil)
    /\ UNCHANGED <<request, resource>>

\* CurryModelProvider's func(ctx) { fn(handler, ctx) }
ProvideModelValue ==
    /\ ctl.pc = "call"
    /\ ctl.fn = "CurryModelProvider"
    /\ \/ \E m \in ProvidedModels :
            /\ trace' = Append(trace, Ran(ctl.fn, ctl.path, Nil, m, TRUE))
            /\ ctl' = Continue(ctl.handler, Nil, m)
       \/ /\ trace' = Append(trace, Ran(ctl.fn, ctl.path, Nil, Nil, FALSE))
          /\ ctl' = Returned
    /\ UNCHANGED <<request, resource>>

\* LiftUserProvider's closure calling fn a second time after fn has returned
LiftProvideUserTwice ==
    /\ ctl.pc = "call"
    /\ ctl.fn = "LiftUserProvider"
    /\ \E u \in ProvidedUsers :
          /\ trace' = trace \o <<Ran(ctl.fn, ctl.path, Nil, Nil, FALSE),
                                  Ran(ctl.fn, ctl.path, u, Nil, TRUE)>>
          /\ ctl' = Continue(ctl.handler, u, Nil)
    /\ UNCHANGED <<request, resource>>

\* LiftUserProvider's func(ctx) { fn(handler, ctx) }
LiftProvideUser ==
    /\ ctl.pc = "call"
    /\ ctl.fn = "LiftUserProvider"
    /\ \/ \E u \in ProvidedUsers :
            /\ trace' = Append(trace, Ran(ctl.fn, ctl.path, u, Nil, TRUE))
            /\ ctl' = Continue(ctl.handler, u, Nil)
       \/ /\ trace' = Append(trace, Ran(ctl.fn, ctl.path, Nil, Nil, FALSE))
          /\ ctl' = Returned
    /\ UNCHANGED <<request, resource>>

\* LiftModelProvider's func(ctx) { fn(handler, ctx) }
LiftProvideModelValue ==
    /\ ctl.pc = "call"
    /\ ctl.fn = "LiftModelProvider"
    /\ \/ \E m \in ProvidedModels :
            /\ trace' = Append(trace, Ran(ctl.fn, ctl.path, Nil, m, TRUE))
            /\ ctl' = Continue(ctl.handler, Nil, m)
       \/ /\ trace' = Append(trace, Ran(ctl.fn, ctl.path, Nil, Nil, FALSE))
          /\ ctl' = Returned
    /\ UNCHANGED <<request, resource>>

\* Merge's func(ctx, model) { uP(func2)(ctx) }: applies uP to the inner
\* closure, which captures model, and calls the result at once
MergeFunc1 ==
    /\ ctl.pc = "handler"
    /\ Head(ctl.handler).f = "Merge.func1"
    /\ LET self == Head(ctl.handler)
           accepter == Tail(ctl.handler)
       IN  ctl' = Invoke(Apply(self.inner, self.innerPath,
                               <<[f |-> "Merge.func2", model |-> ctl.model]>>
                                   \o accepter))
    /\ UNCHANGED <<trace, request, resource>>

\* Merge's inner closure with its two values the other way round
MergeFunc2Swapped ==
    /\ ctl.pc = "handler"
    /\ Head(ctl.handler).f = "Merge.func2"
    /\ ctl' = Continue(Tail(ctl.handler), Head(ctl.handler).model, ctl.user)
    /\ UNCHANGED <<trace, request, resource>>

\* Merge's func(ctx, user) { accepter(ctx, user, model) }
MergeFunc2 ==
    /\ ctl.pc = "handler"
    /\ Head(ctl.handler).f = "Merge.func2"
    /\ LET self == Head(ctl.handler)
           accepter == Tail(ctl.handler)
       IN  ctl' = Continue(accepter, ctl.user, self.model)
    /\ UNCHANGED <<trace, request, resource>>

\* UserAsModel's closure without the type assertion
UserAsModelFunc1Unchecked ==
    /\ ctl.pc = "handler"
    /\ Head(ctl.handler).f = "UserAsModel.func1"
    /\ ctl' = Continue(Tail(ctl.handler), Nil, ctl.user)
    /\ UNCHANGED <<trace, request, resource>>

\* UserAsModel's func(ctx, user) { accepter(ctx, user.(DBModel)) }: the
\* type assertion panics unless the identity implements DBModel
UserAsModelFunc1 ==
    /\ ctl.pc = "handler"
    /\ Head(ctl.handler).f = "UserAsModel.func1"
    /\ ctl' = IF ctl.user \in UserValues
              THEN Continue(Tail(ctl.handler), Nil, ctl.user)
              ELSE Panicked
    /\ UNCHANGED <<trace, request, resource>>

\* DiscardUser's closure losing the model with the user
DiscardUserFunc1DropsModel ==
    /\ ctl.pc = "handler"
    /\ Head(ctl.handler).f = "DiscardUser.func1"
    /\ ctl' = Continue(Tail(ctl.handler), Nil, Nil)
    /\ UNCHANGED <<trace, request, resource>>

\* DiscardUser's func(ctx, _, model) { accepter(ctx, model) }
DiscardUserFunc1 ==
    /\ ctl.pc = "handler"
    /\ Head(ctl.handler).f = "DiscardUser.func1"
    /\ ctl' = Continue(Tail(ctl.handler), Nil, ctl.model)
    /\ UNCHANGED <<trace, request, resource>>

\* a processor closure that calls the accepter itself when fn has not
ProcessorFnThenAccepter(self, accepter) ==
    \/ /\ trace' = Append(trace, Ran(self.f, self.path, ctl.user, ctl.model, TRUE))
       /\ ctl' = Continue(accepter, ctl.user, ctl.model)
    \/ /\ trace' = Append(trace, Ran(self.f, self.path, ctl.user, ctl.model, FALSE))
       /\ ctl' = Continue(accepter, ctl.user, ctl.model)

\* fn(accepter, ctx, user, model) of a processor: it checks the values and
\* calls accepter with them, or does not ("then maybe call accepter")
ProcessorFn(self, accepter) ==
    \/ /\ trace' = Append(trace, Ran(self.f, self.path, ctl.user, ctl.model, TRUE))
       /\ ctl' = Continue(accepter, ctl.user, ctl.model)
    \/ /\ trace' = Append(trace, Ran(self.f, self.path, ctl.user, ctl.model, FALSE))
       /\ ctl' = Returned

\* CurryUserProcessor's func(ctx, user) { fn(accepter, ctx, user) }
UserProcessorFunc1 ==
    /\ ctl.pc = "handler"
    /\ Head(ctl.handler).f = "CurryUserProcessor.func1"
    /\ ProcessorFn(Head(ctl.handler), Tail(ctl.handler))
    /\ UNCHANGED <<request, resource>>

\* CurryModelProcessor's func(ctx, model) { fn(accepter, ctx, model) }
ModelProcessorFunc1 ==
    /\ ctl.pc = "handler"
    /\ Head(ctl.handler).f = "CurryModelProcessor.func1"
    /\ ProcessorFn(Head(ctl.handler), Tail(ctl.handler))
    /\ UNCHANGED <<request, resource>>

\* CurryUserModelProcessor's func(ctx, user, model) { fn(accepter, ctx, user, model) }
UserModelProcessorFunc1 ==
    /\ ctl.pc = "handler"
    /\ Head(ctl.handler).f = "CurryUserModelProcessor.func1"
    /\ ProcessorFn(Head(ctl.handler), Tail(ctl.handler))
    /\ UNCHANGED <<request, resource>>

\* LiftModelProcessor's func(ctx, model) { fn(accepter, ctx, model) }
LiftModelProcessorFunc1 ==
    /\ ctl.pc = "handler"
    /\ Head(ctl.handler).f = "LiftModelProcessor.func1"
    /\ ProcessorFn(Head(ctl.handler), Tail(ctl.handler))
    /\ UNCHANGED <<request, resource>>

\* LiftUserModelProcessor's func(ctx, user, model) { fn(accepter, ctx, user, model) }
LiftUserModelProcessorFunc1 ==
    /\ ctl.pc = "handler"
    /\ Head(ctl.handler).f = "LiftUserModelProcessor.func1"
    /\ ProcessorFn(Head(ctl.handler), Tail(ctl.handler))
    /\ UNCHANGED <<request, resource>>

\* the terminal handlers of exampleProvider: AcceptModel, AcceptUserModel
\* (and a UserHandler alike); they use the values and return
AcceptHandlers == {"AcceptUser", "AcceptModel", "AcceptUserModel"}

Accept ==
    /\ ctl.pc = "handler"
    /\ Head(ctl.handler).f \in AcceptHandlers
    /\ trace' = Append(trace, Ran(Head(ctl.handler).f, <<0>>, ctl.user, ctl.model, FALSE))
    /\ ctl' = Returned
    /\ UNCHANGED <<request, resource>>

----------------------------------------------------------------------------
(* The composition layer alone: every chain composable to MaxDepth, ended  *)
(* by a handler of its shape                                               *)

\* chain(handler), requested with no route parameter and no body
Route(chain, handler) ==
    [chain |-> chain, handler |-> handler, params |-> <<>>, body |-> Nil]

PipeChains(api) ==
    {Route(p, "AcceptUser") : p \in UserProviders(MaxDepth, api)}
    \cup {Route(p, "AcceptModel") : p \in ModelProviders(MaxDepth, api)}
    \cup {Route(p, "AcceptUserModel") : p \in UserModelProviders(MaxDepth, api)}

PipeRequests == UNION {PipeChains(api) : api \in APIs}

\* the router calls chain(handler) with the request's context
PipeRequest ==
    /\ ctl.pc = "idle"
    /\ \E r \in PipeRequests :
          /\ request' = r
          /\ ctl' = Invoke(Apply(r.chain, <<>>, <<[f |-> r.handler]>>))
    /\ trace' = <<>>
    /\ UNCHANGED resource

NoRequest == Route([c |-> "none"], "none")

\* the context of a request that has not arrived
IdleContext ==
    [ctl |-> [pc |-> "idle"], trace |-> <<>>, request |-> NoRequest,
     response |-> NoResponse, dbLog |-> <<>>, before |-> <<>>]

\* the router is done with the request; its context is dropped
Respond ==
    /\ ctl.pc = "done"
    /\ ctl' = [pc |-> "idle"]
    /\ trace' = <<>>
    /\ request' = NoRequest
    /\ response' = NoResponse
    /\ dbLog' = <<>>
    /\ before' = table
    /\ UNCHANGED <<table, build, AcceptableError, parked, record>>

InitPipe ==
    /\ ctl = [pc |-> "idle"]
    /\ trace = <<>>
    /\ request = NoRequest
    /\ response = NoResponse
    /\ table = <<>>
    /\ dbLog = <<>>
    /\ before = <<>>
    /\ build = "part_001"
    /\ AcceptableError = "nil"
    /\ parked = IdleContext
    /\ record = Nil

NextPipe ==
    \/ PipeRequest
    \/ ProvideUser
    \/ ProvideModelValue
    \/ MergeFunc1
    \/ MergeFunc2
    \/ UserAsModelFunc1
    \/ DiscardUserFunc1
    \/ UserProcessorFunc1
    \/ ModelProcessorFunc1
    \/ UserModelProcessorFunc1
    \/ LiftProvideUser
    \/ LiftProvideModelValue
    \/ LiftModelProcessorFunc1
    \/ LiftUserModelProcessorFunc1
    \/ Accept
    \/ Respond

SpecPipe == InitPipe /\ [][NextPipe]_vars

\* the router runs a request it has accepted to its end: a called
\* gin.HandlerFunc and each closure it calls do run
FairSpecPipe == SpecPipe /\ WF_vars(NextPipe)

----------------------------------------------------------------------------
(* The records: Resource and User of handler_test.go *)

\* (r *Resource) GetID / (u *User) GetID
GetID(x) == x.ID

\* (r *Resource) ParentID: return r.UserID
ParentID(r) == r.UserID

\* (r *Resource) OwnerID: return r.ParentID()
OwnerID(r) == ParentID(r)

\* SetParent writing the parent's id and leaving the User link as it was
SetParentIDOnly(r, model) ==
    IF model.kind = "User"
    THEN [err |-> "nil", s |-> [r EXCEPT !.UserID = model.ID]]
    ELSE [err |-> "owner isn't a user", s |-> r]

\* (r *Resource) SetParent: the parent must be a *User; r.User = *owner,
\* r.UserID = owner.ID
SetParent(r, model) ==
    IF model.kind = "User"
    THEN [err |-> "nil", s |-> [r EXCEPT !.User = model.ID, !.UserID = model.ID]]
    ELSE [err |-> "owner isn't a user", s |-> r]

\* (r *Resource) SetOwner: the user must be a DBModel; then r.SetParent(it)
SetOwner(r, user) ==
    IF user.kind \in {"User", "Resource"}
    THEN SetParent(r, user)
    ELSE [err |-> "user must be a model", s |-> r]

\* SetOwnerID(uint) of handler.go's DBModel: the owner id is stored on the record
SetOwnerID(r, id) == [r EXCEPT !.UserID = id]

\* &Resource{}: what single() returns
ZeroResource == [kind |-> "Resource", ID |-> 0, UserID |-> 0, User |-> 0, Text |-> ""]

\* the request bodies: not JSON at all, or a JSON object with some of the
\* fields UserID and Text (0 and "" stand for a field left out)
Malformed == [kind |-> "malformed"]

Bodies ==
    {Malformed}
    \cup {[kind |-> "json", UserID |-> u, Text |-> t] :
             u \in 0..NumUsers, t \in {""} \cup Texts}

\* the bodies of updates: these may name an ID as well
PatchBodies ==
    {Malformed}
    \cup {[kind |-> "json", ID |-> i, UserID |-> u, Text |-> t] :
             i \in 0..MaxRecords, u \in {0, NumUsers}, t \in {""} \cup Texts}

\* ctx.BindJSON(s): decode the body into s, then validate Text, which is
\* tagged binding:"required"
BindJSON(s, body) ==
    IF body.kind = "malformed" THEN [err |-> TRUE, s |-> s]
    ELSE LET decoded == [s EXCEPT !.ID = IF "ID" \in DOMAIN body THEN body.ID ELSE @,
                                  !.UserID = body.UserID, !.Text = body.Text]
         IN  [err |-> decoded.Text = "", s |-> decoded]

----------------------------------------------------------------------------
(* Errors *)

NoError == [type |-> "nil", msg |-> ""]

\* gorm.ErrRecordNotFound = errors.New("record not found")
ErrRecordNotFound == [type |-> "*errors.errorString", msg |-> "record not found"]

\* ErrRequestMissingAttrs = errors.New("couldn't bind resource")
ErrRequestMissingAttrs == [type |-> "*errors.errorString", msg |-> "couldn't bind resource"]

\* ErrRequestMissingMomentAttrs of handler.go
ErrRequestMissingMomentAttrs ==
    [type |-> "*errors.errorString", msg |-> "request requires attribute location"]

\* resourceError, which the BeforeSave hook of the tests' Resource returns
HookError == [type |-> "*errors.errorString", msg |-> "an error"]

\* an error of the database driver: the connection, a constraint
DriverError == [type |-> "*pq.Error", msg |-> "pq: error"]

\* Gorm's fmt.Errorf("invalid association %v", foreignKeys)
InvalidAssociation == [type |-> "*errors.errorString", msg |-> "invalid association []"]

\* the panic of reflect.Value.Set on a value that is not addressable
UnaddressableValue ==
    [type |-> "panic", msg |-> "reflect: reflect.Value.Set using unaddressable value"]

\* the driver rejecting a parameter that is no integer literal
SyntaxError == [type |-> "*pq.Error", msg |-> "pq: invalid input syntax for integer"]

\* func errToJSON(err): gin.H{"error": err.Error()}
errToJSON(err) == [error |-> err.msg]

\* every error taken for one made by errors.New
TypeOfErrorsNew(err) == "*errors.errorString"

\* reflect.TypeOf(err)
TypeOf(err) == err.type

----------------------------------------------------------------------------
(* The route parameter and regexpID *)

PathParams == UNION {[1..n -> Alphabet] : n \in ParamLengths}

DigitChars == {"0", "1", "2", "3", "4", "5", "6", "7", "8", "9"}

DigitValue(c) ==
    CASE c = "0" -> 0 [] c = "1" -> 1 [] c = "2" -> 2 [] c = "3" -> 3
      [] c = "4" -> 4 [] c = "5" -> 5 [] c = "6" -> 6 [] c = "7" -> 7
      [] c = "8" -> 8 [] c = "9" -> 9

\* an anchored match: the parameter is one or more digits and nothing else
MatchWholeString(id) ==
    /\ id # <<>>
    /\ \A i \in DOMAIN id : id[i] \in DigitChars

\* regexpID.MatchString(id), regexpID = regexp.MustCompile(`\d+`): the
\* pattern is not anchored, so one digit anywhere in id is a match
regexpID(id) == \E i \in DOMAIN id : id[i] \in DigitChars

\* ctx.Param(key): the route's parameter of that name, or ""
Param(params, key) == IF key \in DOMAIN params THEN params[key] ELSE <<>>

----------------------------------------------------------------------------
(* The database (Gorm over the resources table).  A row keeps its ID when  *)
(* it is soft-deleted; queries do not see it.                              *)

\* id is an integer literal: digits only
IsInteger(id) ==
    /\ id # <<>>
    /\ \A i \in DOMAIN id : id[i] \in DigitChars

RECURSIVE ToInteger(_)
\* the value of an integer literal
ToInteger(id) ==
    IF id = <<>> THEN 0
    ELSE 10 * ToInteger(SubSeq(id, 1, Len(id) - 1)) + DigitValue(id[Len(id)])

RECURSIVE NumericPrefix(_)
\* the value of the digits id starts with (0 when it starts with none)
NumericPrefix(id) ==
    IF IsInteger(id) THEN ToInteger(id)
    ELSE IF id = <<>> THEN 0
    ELSE NumericPrefix(SubSeq(id, 1, Len(id) - 1))

\* the IDs of the rows a query sees.  A row stays where the insert put it;
\* its id column says which identifier it answers to.
Visible(t) == {t[i].ID : i \in {j \in DOMAIN t : ~t[j].deleted}}

\* the row of record s
Row(s) == [ID |-> s.ID, UserID |-> s.UserID, Text |-> s.Text, deleted |-> FALSE]

\* the row a query finds under identifier n
RowWithID(t, n) == t[CHOOSE i \in DOMAIN t : t[i].ID = n /\ ~t[i].deleted]

\* the record scanned from the row with this ID
Load(id, row) ==
    [kind |-> "Resource", ID |-> id, UserID |-> row.UserID, User |-> 0,
     Text |-> row.Text]

\* the select without the deleted_at condition
SelectDeletedToo(t, n) ==
    IF \E i \in DOMAIN t : t[i].ID = n
    THEN [err |-> NoError, value |-> Load(n, t[CHOOSE i \in DOMAIN t : t[i].ID = n])]
    ELSE [err |-> ErrRecordNotFound, value |-> Nil]

\* SELECT ... WHERE deleted_at IS NULL AND id = n LIMIT 1
SelectByID(t, n) ==
    IF n \in Visible(t)
    THEN [err |-> NoError, value |-> Load(n, RowWithID(t, n))]
    ELSE [err |-> ErrRecordNotFound, value |-> Nil]

\* First without the Where: the first row of the table
FirstOfAll(t, id) ==
    {[err |-> DriverError, value |-> Nil]}
    \cup IF Visible(t) = {}
         THEN {[err |-> ErrRecordNotFound, value |-> Nil]}
         ELSE {LET n == CHOOSE i \in Visible(t) : \A j \in Visible(t) : i <= j
               IN  [err |-> NoError, value |-> Load(n, RowWithID(t, n))]}

\* db.Where("id = ?", id).First(s): the results the database may give.  id
\* is sent as text.  An integer literal selects by its value.  What a text
\* that is no integer literal selects is the engine's business: postgres
\* (the tests' driver) rejects it, sqlite matches no row, mysql compares the
\* digits it starts with.  Any query may fail in the driver.
First(t, id) ==
    {[err |-> DriverError, value |-> Nil]}
    \cup IF IsInteger(id)
         THEN {SelectByID(t, ToInteger(id))}
         ELSE {[err |-> SyntaxError, value |-> Nil],
               [err |-> ErrRecordNotFound, value |-> Nil],
               SelectByID(t, NumericPrefix(id))}

\* db.Create(s): the BeforeSave hook may return resourceError; the insert
\* gives s the next ID of the sequence; the driver may fail
Create(t, s) ==
    {LET inserted == [s EXCEPT !.ID = Len(t) + 1]
     IN  [err |-> NoError, s |-> inserted, table |-> Append(t, Row(inserted))]}
    \cup {[err |-> e, s |-> s, table |-> t] : e \in {HookError, DriverError}}

\* the delete without its condition: every row
DeleteUnconditioned(t, s) ==
    {[err |-> NoError, table |-> [i \in DOMAIN t |-> [t[i] EXCEPT !.deleted = TRUE]]],
     [err |-> DriverError, table |-> t]}

\* db.Delete(s): UPDATE ... SET deleted_at = now WHERE id = s.ID
Delete(t, s) ==
    {[err |-> NoError,
      table |-> [i \in DOMAIN t |->
                    IF t[i].ID = s.ID THEN [t[i] EXCEPT !.deleted = TRUE] ELSE t[i]]],
     [err |-> DriverError, table |-> t]}

\* Gorm's field.Set for every field of newS that is not blank: Updates
\* assigns them to the struct it was given as Model before it writes
Assign(s, newS) ==
    [s EXCEPT !.ID = IF newS.ID # 0 THEN newS.ID ELSE @,
              !.UserID = IF newS.UserID # 0 THEN newS.UserID ELSE @,
              !.Text = IF newS.Text # "" THEN newS.Text ELSE @]

\* UPDATE ... SET <the non-blank fields of newS> WHERE deleted_at IS NULL
\* AND id = n
UpdateWhere(t, n, newS) ==
    [i \in DOMAIN t |->
        IF t[i].ID = n /\ ~t[i].deleted
        THEN Row(Assign(Load(t[i].ID, t[i]), newS))
        ELSE t[i]]

\* Updates with the row chosen by the identifier s was found under
UpdatesFound(t, s, newS) ==
    {[err |-> NoError, s |-> Assign(s, newS), table |-> UpdateWhere(t, s.ID, newS)]}
    \cup {[err |-> e, s |-> s, table |-> t] : e \in {HookError, DriverError}}

\* db.Model(s).Updates(newS): the BeforeSave hook may return resourceError;
\* the non-blank fields of newS, its ID among them, are assigned to s, and
\* the UPDATE is then written with the primary key s has by then as its
\* condition; the driver may fail
Updates(t, s, newS) ==
    {[err |-> NoError, s |-> Assign(s, newS),
      table |-> UpdateWhere(t, Assign(s, newS).ID, newS)]}
    \cup {[err |-> e, s |-> s, table |-> t] : e \in {HookError, DriverError}}

\* what New's collection() may return: the slice by value of the tests'
\* func() interface{} { return []Resource{} }, or a pointer to such a slice
ByValue == "[]Resource{}"
ByPointer == "&[]Resource{}"
Collections == {ByValue, ByPointer}

\* db.Model(owner).Related(c).  Gorm looks for the foreign key under the
\* owner's type name: only a *User is named by a column of the records
\* (user_id); for any other owner it returns an invalid association without
\* a query.  For a *User it goes on to Find(c), which first resets c through
\* reflection: a slice passed by value cannot be set, and Gorm panics before
\* the query (recorded as the call's outcome).  Given a pointer, Find
\* returns the rows whose user_id is the owner's ID, or no row; the driver
\* may fail.
Related(t, owner, c) ==
    IF owner.kind # "User"
    THEN {[err |-> InvalidAssociation, value |-> <<>>]}
    ELSE IF c = ByValue
    THEN {[err |-> UnaddressableValue, value |-> <<>>]}
    ELSE LET rows  == SelectSeq(t, LAMBDA r : ~r.deleted /\ r.UserID = owner.ID)
             found == [i \in 1..Len(rows) |-> Load(rows[i].ID, rows[i])]
         IN  {[err |-> NoError, value |-> found], [err |-> DriverError, value |-> <<>>]}
             \cup IF rows = <<>> THEN {[err |-> ErrRecordNotFound, value |-> <<>>]}
                                 ELSE {}

\* one entry of dbLog
Called(op, arg, err) == [op |-> op, arg |-> arg, err |-> err]

\* linker of the tests: fmt.Sprintf("/r/%d", id)
linker(id) == <<"/r/", id>>

\* func absURL(req, path): path resolved against the request's host and URL
absURL(path) == <<"//", "host">> \o path

----------------------------------------------------------------------------
(* The lookup stage: New's ProvideModelForKey and, in handler.go,          *)
(* PublicFinder and PrivateFinder                                          *)

\* r.ProvideModelForKey(key)(handler): the gin.HandlerFunc returned
ProvideModelForKey(key, path, handler) ==
    [fn |-> "ProvideModelForKey", key |-> key, path |-> path, handler |-> handler]

\* r.ProvideModel = r.ProvideModelForKey("id")
ProvideModel(path, handler) == ProvideModelForKey("id", path, handler)

\* r.PublicFinder(handler): the gin.HandlerFunc returned
PublicFinder(path, handler) ==
    [fn |-> "PublicFinder", key |-> "id", path |-> path, handler |-> handler]

\* r.PrivateFinder(handler): the UserHandler returned
PrivateFinder(handler) == <<[f |-> "PrivateFinder.func1"]>> \o handler

\* the lookup answering 404 to whatever error First gives
FindEveryErrorIs404(id) ==
    IF ~regexpID(id)
    THEN /\ response' = AbortWithStatus(response, 404)
         /\ trace' = Append(trace, Ran(ctl.fn, ctl.path, Nil, Nil, FALSE))
         /\ ctl' = Returned
         /\ UNCHANGED dbLog
    ELSE \E found \in First(table, id) :
            /\ dbLog' = Append(dbLog, Called("First", id, found.err))
            /\ IF found.err # NoError
               THEN /\ response' = AbortWithStatus(response, 404)
                    /\ trace' = Append(trace, Ran(ctl.fn, ctl.path, Nil, Nil, FALSE))
                    /\ ctl' = Returned
               ELSE /\ trace' = Append(trace, Ran(ctl.fn, ctl.path, Nil, found.value, TRUE))
                    /\ ctl' = Continue(ctl.handler, Nil, found.value)
                    /\ UNCHANGED response

\* the body both finders share: id fails regexpID -> AbortWithError(404);
\* First says record not found -> AbortWithError(404); First fails
\* otherwise -> panic; else handler(ctx, s)
Find(id) ==
    IF ~regexpID(id)
    THEN /\ response' = AbortWithStatus(response, 404)
         /\ trace' = Append(trace, Ran(ctl.fn, ctl.path, Nil, Nil, FALSE))
         /\ ctl' = Returned
         /\ UNCHANGED dbLog
    ELSE \E found \in First(table, id) :
            /\ dbLog' = Append(dbLog, Called("First", id, found.err))
            /\ IF found.err = ErrRecordNotFound
               THEN /\ response' = AbortWithStatus(response, 404)
                    /\ trace' = Append(trace, Ran(ctl.fn, ctl.path, Nil, Nil, FALSE))
                    /\ ctl' = Returned
               ELSE IF found.err # NoError
               THEN /\ trace' = Append(trace, Ran(ctl.fn, ctl.path, Nil, Nil, FALSE))
                    /\ ctl' = Panicked
                    /\ UNCHANGED response
               ELSE /\ trace' = Append(trace, Ran(ctl.fn, ctl.path, Nil, found.value, TRUE))
                    /\ ctl' = Continue(ctl.handler, Nil, found.value)
                    /\ UNCHANGED response

\* ProvideModelForKey's func(ctx): id := ctx.Param(key), then the lookup
ProvideModelForKeyFunc1 ==
    /\ ctl.pc = "call"
    /\ ctl.fn = "ProvideModelForKey"
    /\ Find(Param(request.params, ctl.key))
    /\ UNCHANGED <<request, table, before, build, AcceptableError, parked, record>>

\* PublicFinder's func(ctx): id := ctx.Param("id"), then the lookup
PublicFinderFunc1 ==
    /\ ctl.pc = "call"
    /\ ctl.fn = "PublicFinder"
    /\ Find(Param(request.params, ctl.key))
    /\ UNCHANGED <<request, table, before, build, AcceptableError, parked, record>>

\* PrivateFinder's func(ctx, u): r.PublicFinder(func(ctx, s) {...})(ctx)
PrivateFinderFunc1 ==
    /\ ctl.pc = "handler"
    /\ Head(ctl.handler).f = "PrivateFinder.func1"
    /\ ctl' = Invoke(PublicFinder(<<0, 1>>,
                        <<[f |-> "PrivateFinder.func1.1", u |-> ctl.user]>>
                            \o Tail(ctl.handler)))
    /\ UNCHANGED <<trace, request, resource>>

\* the ownership check passing every record on
OwnerCheckSkipped(u, s) == TRUE

\* s.OwnerID() == u.GetID()
OwnerCheck(u, s) == OwnerID(s) = GetID(u)

\* the func(ctx, s) PrivateFinder hands to PublicFinder: handler(ctx, s) when
\* the record's owner is u, AbortWithStatus(401) otherwise; u.GetID() on the
\* nil User is a nil dereference
PrivateFinderFunc1_1 ==
    /\ ctl.pc = "handler"
    /\ Head(ctl.handler).f = "PrivateFinder.func1.1"
    /\ LET u == Head(ctl.handler).u
           s == ctl.model
       IN  IF u = Nil
           THEN /\ trace' = Append(trace, Ran("PrivateFinder", <<0>>, u, s, FALSE))
                /\ ctl' = Panicked
                /\ UNCHANGED response
           ELSE IF OwnerCheck(u, s)
           THEN /\ trace' = Append(trace, Ran("PrivateFinder", <<0>>, u, s, TRUE))
                /\ ctl' = Continue(Tail(ctl.handler), Nil, s)
                /\ UNCHANGED response
           ELSE /\ trace' = Append(trace, Ran("PrivateFinder", <<0>>, u, s, FALSE))
                /\ response' = AbortWithStatus(response, 401)
                /\ ctl' = Returned
    /\ UNCHANGED <<request, table, dbLog, before, build, AcceptableError, parked, record>>

----------------------------------------------------------------------------
(* The terminal handlers New builds *)

\* Post with the return after the 422 left out
PostBindIgnored(s, body) == [err |-> FALSE, s |-> s]

\* Post's ctx.BindJSON(s) != nil.  Gin's BindJSON itself aborts the context
\* with 400 when it fails; the status is still pending then, and the
\* ctx.JSON(422, ...) that follows sets it, as TestPost expects.
PostBind(s, body) == BindJSON(s, body)

\* Post creating the record twice
CreateTwice(t, s) ==
    {[err |-> NoError, s |-> [s EXCEPT !.ID = Len(t) + 2],
      table |-> Append(Append(t, Row(s)), Row(s))]}

\* Post's db.Create(s)
PostCreate(t, s) == Create(t, s)

\* r.Post = func(ctx, user, parent) of the later New, up to the return of
\* db.Create(s): the binding, the two mutators and the insert.  What follows
\* reads a variable of the package and is a step of its own.
Post ==
    /\ ctl.pc = "handler"
    /\ Head(ctl.handler).f = "Post"
    /\ build = "part_001"
    /\ LET bound  == PostBind(ZeroResource, request.body)
           owned  == SetOwner(bound.s, ctl.user)
           placed == SetParent(owned.s, ctl.model)
           here   == Ran("Post", <<0>>, ctl.user, ctl.model, FALSE)
       IN  /\ trace' = Append(trace, here)
           /\ IF bound.err
              THEN /\ response' = JSON(AbortWithStatus(response, 400), 422,
                                       errToJSON(ErrRequestMissingAttrs))
                   /\ ctl' = Returned
                   /\ UNCHANGED <<table, dbLog>>
              ELSE IF owned.err # "nil" \/ placed.err # "nil"
              THEN /\ ctl' = Panicked
                   /\ UNCHANGED <<response, table, dbLog>>
              ELSE \E created \in PostCreate(table, placed.s) :
                      /\ dbLog' = Append(dbLog, Called("Create", placed.s, created.err))
                      /\ table' = created.table
                      /\ ctl' = Continue(<<[f |-> "Post.created", s |-> created.s,
                                            err |-> created.err]>>,
                                         ctl.user, ctl.model)
                      /\ UNCHANGED response
    /\ UNCHANGED <<request, before, build, AcceptableError, parked, record>>

\* Post from the return of db.Create(s) on: the comparison of the error's
\* type with the package's AcceptableError as it is by then, and the answer
PostCreated ==
    /\ ctl.pc = "handler"
    /\ Head(ctl.handler).f = "Post.created"
    /\ LET created == Head(ctl.handler)
       IN  IF created.err = NoError
           THEN /\ response' =
                     JSON(HeaderLocation(response,
                              absURL(linker(GetID(created.s)))),
                          201, created.s)
                /\ ctl' = Returned
           ELSE IF TypeOf(created.err) = AcceptableError
           THEN /\ response' =
                     JSON(HeaderLocation(
                              JSON(response, 422, errToJSON(created.err)),
                              absURL(linker(GetID(created.s)))),
                          201, created.s)
                /\ ctl' = Returned
           ELSE /\ ctl' = Panicked
                /\ UNCHANGED response
    /\ UNCHANGED <<trace, request, table, dbLog, before, build, AcceptableError,
                   parked, record>>

\* r.Post = func(ctx, paramUser) of handler.go; paramUser.GetID() on the
\* nil User is a nil dereference
PostOwnerID ==
    /\ ctl.pc = "handler"
    /\ Head(ctl.handler).f = "Post"
    /\ build = "handler.go"
    /\ LET bound == PostBind(ZeroResource, request.body)
           owned == SetOwnerID(bound.s, GetID(ctl.user))
           here  == Ran("Post", <<0>>, ctl.user, ctl.model, FALSE)
       IN  /\ trace' = Append(trace, here)
           /\ IF bound.err
              THEN /\ response' = JSON(AbortWithStatus(response, 400), 422,
                                       errToJSON(ErrRequestMissingMomentAttrs))
                   /\ ctl' = Returned
                   /\ UNCHANGED <<table, dbLog>>
              ELSE IF ctl.user = Nil
              THEN /\ ctl' = Panicked
                   /\ UNCHANGED <<response, table, dbLog>>
              ELSE \E created \in PostCreate(table, owned) :
                      /\ dbLog' = Append(dbLog, Called("Create", owned, created.err))
                      /\ table' = created.table
                      /\ IF created.err = NoError
                         THEN /\ response' =
                                   JSON(HeaderLocation(response,
                                            absURL(linker(GetID(created.s)))),
                                        201, created.s)
                              /\ ctl' = Returned
                         ELSE /\ ctl' = Panicked
                              /\ UNCHANGED response
    /\ UNCHANGED <<request, before, build, AcceptableError, parked, record>>

\* r.Get = func(ctx, s): ctx.JSON(200, s)
Get ==
    /\ ctl.pc = "handler"
    /\ Head(ctl.handler).f = "Get"
    /\ trace' = Append(trace, Ran("Get", <<0>>, ctl.user, ctl.model, FALSE))
    /\ response' = JSON(response, 200, ctl.model)
    /\ ctl' = Returned
    /\ UNCHANGED <<request, table, dbLog, before, build, AcceptableError, parked, record>>

\* r.Delete = func(ctx, s): db.Delete(s), panic on its error,
\* ctx.AbortWithStatus(204)
DeleteHandler ==
    /\ ctl.pc = "handler"
    /\ Head(ctl.handler).f = "Delete"
    /\ trace' = Append(trace, Ran("Delete", <<0>>, ctl.user, ctl.model, FALSE))
    /\ \E deleted \in Delete(table, ctl.model) :
          /\ dbLog' = Append(dbLog, Called("Delete", ctl.model, deleted.err))
          /\ table' = deleted.table
          /\ IF deleted.err = NoError
             THEN /\ response' = AbortWithStatus(response, 204)
                  /\ ctl' = Returned
             ELSE /\ ctl' = Panicked
                  /\ UNCHANGED response
    /\ UNCHANGED <<request, before, build, AcceptableError, parked, record>>

\* Patch going on to the update after a failed bind
PatchBindIgnored(s, body) ==
    [err |-> FALSE,
     s |-> IF body.kind = "malformed" THEN s
           ELSE [s EXCEPT !.ID = body.ID, !.UserID = body.UserID, !.Text = body.Text]]

\* Patch's ctx.BindJSON(newS) != nil
PatchBind(s, body) == BindJSON(s, body)

\* what Patch hands to ctx.JSON(200, ...): newS, the struct the body was
\* bound to, and not s, the record Updates assigned to
PatchAnswer(s, newS) == newS

\* r.Patch = func(ctx, s): the same in both variants of New, up to the
\* error of the 422
Patch ==
    /\ ctl.pc = "handler"
    /\ Head(ctl.handler).f = "Patch"
    /\ LET bound == PatchBind(ZeroResource, request.body)
           newS  == bound.s
       IN  /\ trace' = Append(trace, Ran("Patch", <<0>>, ctl.user, ctl.model, FALSE))
           /\ IF bound.err
              THEN /\ response' =
                        JSON(AbortWithStatus(response, 400), 422,
                             errToJSON(IF build = "part_001"
                                       THEN ErrRequestMissingAttrs
                                       ELSE ErrRequestMissingMomentAttrs))
                   /\ ctl' = Returned
                   /\ UNCHANGED <<table, dbLog>>
              ELSE \E updated \in Updates(table, ctl.model, newS) :
                      /\ dbLog' = Append(dbLog, Called("Updates", newS, updated.err))
                      /\ table' = updated.table
                      /\ IF updated.err = NoError
                         THEN /\ response' =
                                   JSON(response, 200, PatchAnswer(updated.s, newS))
                              /\ ctl' = Returned
                         ELSE /\ ctl' = Panicked
                              /\ UNCHANGED response
    /\ UNCHANGED <<request, before, build, AcceptableError, parked, record>>

\* the owner a Collection was called for: the DBModel of the later New,
\* the User of handler.go
CollectionOwner == IF build = "part_001" THEN ctl.model ELSE ctl.user

\* r.Collection = func(ctx, owner): c := collection(), Related(c), panic on
\* an error other than record not found, ctx.JSON(200, c).
\* db.Model(nil).Related panics in Gorm, which asks a nil owner for its
\* type; a panic inside Related leaves the handler as panic(err) does.
Collection ==
    /\ ctl.pc = "handler"
    /\ Head(ctl.handler).f = "Collection"
    /\ trace' = Append(trace, Ran("Collection", <<0>>, ctl.user, ctl.model, FALSE))
    /\ IF CollectionOwner = Nil
       THEN /\ ctl' = Panicked
            /\ UNCHANGED <<response, dbLog>>
       ELSE \E related \in Related(table, CollectionOwner, request.chain.collection) :
               /\ dbLog' = Append(dbLog, Called("Related", CollectionOwner, related.err))
               /\ IF related.err \notin {NoError, ErrRecordNotFound}
                  THEN /\ ctl' = Panicked
                       /\ UNCHANGED response
                  ELSE /\ response' = JSON(response, 200, related.value)
                       /\ ctl' = Returned
    /\ UNCHANGED <<request, table, before, build, AcceptableError, parked, record>>

\* the UserModelProvider a Post route is mounted behind: it resolves the
\* authenticated user and the parent of the collection, or ends the request
UserModelProvider(path, handler) ==
    [fn |-> "UserModelProvider", path |-> path, handler |-> handler]

\* the parents a route may resolve: a user, or a resource already stored
ProvidedParents ==
    UserValues \cup {Load(i, RowWithID(table, i)) : i \in Visible(table)}

ProvideUserModel ==
    /\ ctl.pc = "call"
    /\ ctl.fn = "UserModelProvider"
    /\ \/ \E u \in ProvidedUsers, m \in ProvidedParents :
            /\ trace' = Append(trace, Ran(ctl.fn, ctl.path, u, m, TRUE))
            /\ ctl' = Continue(ctl.handler, u, m)
       \/ /\ trace' = Append(trace, Ran(ctl.fn, ctl.path, Nil, Nil, FALSE))
          /\ ctl' = Returned
    /\ UNCHANGED <<request, resource>>

\* the gin.HandlerFunc of the tests' modelProvider(handler): it calls the
\* handler with the *Resource the route was mounted for
ModelProvider(path, handler) ==
    [fn |-> "modelProvider", path |-> path, handler |-> handler]

\* the identifiers of the stored records such routes are mounted for
MountedIDs == {1, 2}

\* the records such a route is mounted for: one that is stored, or one that
\* was built in memory
ProvidedResources ==
    ResourceValues
    \cup {Load(i, RowWithID(table, i)) : i \in Visible(table) \cap MountedIDs}

\* modelProvider's func(ctx) { handler(ctx, r) }
ProvideResource ==
    /\ ctl.pc = "call"
    /\ ctl.fn = "modelProvider"
    /\ \E r \in ProvidedResources :
          /\ trace' = Append(trace, Ran(ctl.fn, ctl.path, Nil, r, TRUE))
          /\ ctl' = Continue(ctl.handler, Nil, r)
    /\ UNCHANGED <<request, resource>>

----------------------------------------------------------------------------
(* The resource layer: routes over the handlers of New, one request at a   *)
(* time against one database                                               *)

Builds == {"handler.go", "part_001"}

\* a request to a route: its parameters and its body
ResourceRoute(chain, handler, params, body) ==
    [chain |-> chain, handler |-> handler, params |-> params, body |-> body]

\* the gin.HandlerFunc mounted for the route
Mount(r) ==
    CASE r.chain.c = "ProvideModelForKey" ->
            ProvideModelForKey(r.chain.key, <<>>, <<[f |-> r.handler]>>)
      [] r.chain.c = "PublicFinder" ->
            PublicFinder(<<>>, <<[f |-> r.handler]>>)
      [] r.chain.c = "PrivateFinder" ->
            LiftUserProvider(<<>>, PrivateFinder(<<[f |-> r.handler]>>))
      [] r.chain.c = "LiftUserProvider" ->
            LiftUserProvider(<<>>, <<[f |-> r.handler]>>)
      [] r.chain.c = "CurryModelProvider" ->
            CurryModelProvider(<<>>, <<[f |-> r.handler]>>)
      [] r.chain.c = "UserModelProvider" ->
            UserModelProvider(<<>>, <<[f |-> r.handler]>>)
      [] r.chain.c = "modelProvider" ->
            ModelProvider(<<>>, <<[f |-> r.handler]>>)

ModelHandlers == {"Get", "Delete"}

\* GET and DELETE /r/:id behind the finders of the build; with the later
\* New also GET /p/:parent/r, and a route that has no parameter of the
\* key's name
FinderRequests(b) ==
    IF b = "part_001"
    THEN {ResourceRoute([c |-> "ProvideModelForKey", key |-> "id"], h, [id |-> p], Nil) :
             h \in ModelHandlers, p \in PathParams}
         \cup {ResourceRoute([c |-> "ProvideModelForKey", key |-> "parent"],
                             "Get", [parent |-> p], Nil) : p \in PathParams}
         \cup {ResourceRoute([c |-> "ProvideModelForKey", key |-> "parent"],
                             "Get", [id |-> p], Nil) : p \in {<<"1">>}}
    ELSE {ResourceRoute([c |-> f], h, [id |-> p], Nil) :
             f \in {"PublicFinder", "PrivateFinder"}, h \in ModelHandlers,
             p \in PathParams}
         \cup {ResourceRoute([c |-> "PublicFinder"], "Get", [parent |-> p], Nil) :
                  p \in {<<"1">>}}

\* the records updates are tried on
PatchParams == {<<"1">>, <<"2">>}

\* PATCH /r/:id
PatchRequests(b) ==
    {ResourceRoute(IF b = "part_001"
                   THEN [c |-> "ProvideModelForKey", key |-> "id"]
                   ELSE [c |-> "PublicFinder"],
                   "Patch", [id |-> p], body) :
        p \in PatchParams, body \in PatchBodies}

\* GET /r: the collection of an owner the route's provider resolves
CollectionRequests(b) ==
    {ResourceRoute([c |-> IF b = "part_001" THEN "CurryModelProvider"
                                            ELSE "LiftUserProvider",
                    collection |-> c],
                   "Collection", [x \in {} |-> <<>>], Nil) : c \in Collections}

\* GET /test behind mountResourceHandler: the handler is given a record
\* without a lookup
MountedRequests(b) ==
    {ResourceRoute([c |-> "modelProvider"], h, [x \in {} |-> <<>>], Nil) :
        h \in ModelHandlers}

\* POST /r
PostRequests(b) ==
    {ResourceRoute([c |-> IF b = "part_001" THEN "UserModelProvider"
                                            ELSE "LiftUserProvider"],
                   "Post", [x \in {} |-> <<>>], body) : body \in Bodies}

ResourceRequest ==
    /\ ctl.pc = "idle"
    /\ \E r \in FinderRequests(build)
                \cup PatchRequests(build)
                \cup CollectionRequests(build)
                \cup MountedRequests(build)
                \cup (IF Len(table) < MaxRecords THEN PostRequests(build) ELSE {}) :
          /\ request' = r
          /\ ctl' = Invoke(Mount(r))
    /\ trace' = <<>>
    /\ UNCHANGED resource

Init ==
    /\ ctl = [pc |-> "idle"]
    /\ trace = <<>>
    /\ request = NoRequest
    /\ response = NoResponse
    /\ table = <<>>
    /\ dbLog = <<>>
    /\ before = <<>>
    /\ build \in Builds
    /\ AcceptableError \in
          IF build = "part_001" THEN {"nil", TypeOf(HookError)} ELSE {"nil"}
    /\ parked = IdleContext
    /\ record = Nil

Next ==
    \/ ResourceRequest
    \/ LiftProvideUser
    \/ ProvideModelValue
    \/ ProvideUserModel
    \/ ProvideResource
    \/ ProvideModelForKeyFunc1
    \/ PublicFinderFunc1
    \/ PrivateFinderFunc1
    \/ PrivateFinderFunc1_1
    \/ Post
    \/ PostCreated
    \/ PostOwnerID
    \/ Get
    \/ Patch
    \/ DeleteHandler
    \/ Collection
    \/ Respond

Spec == Init /\ [][Next]_vars

----------------------------------------------------------------------------
(* Reading the trace against the composed chain *)

\* path lies in the subtree of the chain rooted at root
Within(root, path) ==
    /\ path # <<0>>
    /\ Len(root) <= Len(path)
    /\ SubSeq(path, 1, Len(root)) = root

RECURSIVE MergePaths(_, _)
\* the positions of the Merge combinators of chain p (rooted at path)
MergePaths(p, path) ==
    CASE p.c = "Merge" ->
            {path} \cup MergePaths(p.uP, path \o <<1>>)
                   \cup MergePaths(p.mP, path \o <<2>>)
      [] p.c = "UserAsModel" -> MergePaths(p.mP, path \o <<1>>)
      [] p.c = "DiscardUser" -> MergePaths(p.p, path \o <<1>>)
      [] p.c \in {"CurryUserProcessor", "CurryModelProcessor",
                  "CurryUserModelProcessor", "LiftModelProcessor",
                  "LiftUserModelProcessor"} -> MergePaths(p.provider, path \o <<1>>)
      [] OTHER -> {}

\* the trace positions of the stages inside the subtree rooted at root
StagesWithin(root) == {i \in DOMAIN trace : Within(root, trace[i].path)}

\* the trace positions of the stages outside the subtree rooted at root:
\* what runs in, or behind, the handler given to the provider at root
StagesBehind(root) == {i \in DOMAIN trace : ~Within(root, trace[i].path)}

\* C1: in every request through Merge(U, M)(h), wherever the Merge sits in the
\* chain, a stage of U runs only after a stage of M has run, and the joint
\* handler h (every stage behind the Merge) runs only after a stage of U has
\* run: M's resolution starts first, then U's, then h.
C1_MergeModelThenUserThenHandler ==
    \A m \in MergePaths(request.chain, <<>>) :
        /\ \A j \in StagesWithin(m \o <<1>>) :
              \E i \in StagesWithin(m \o <<2>>) : i < j
        /\ \A j \in StagesBehind(m) :
              \E i \in StagesWithin(m \o <<1>>) : i < j

\* a request through Merge(U, M)(h) has run M, U and h
C1_Witness ==
    /\ request.chain.c = "Merge"
    /\ ctl.pc = "done"
    /\ Len(trace) >= 3
    /\ trace[Len(trace)].stage = "AcceptUserModel"
    /\ StagesWithin(<<1>>) # {}
    /\ StagesWithin(<<2>>) # {}

\* C2: in every request through Merge(U, M)(h), each stage behind the Merge
\* (h above all) runs at most once, and runs only if every stage of M and of U
\* ran and called the handler it was given; once a stage of M or U has
\* declined to call its handler, nothing behind the Merge runs.
C2_JointHandlerAtMostOnceAndOnlyIfBothResolve ==
    \A m \in MergePaths(request.chain, <<>>) :
        LET behind == StagesBehind(m)
            ofM == StagesWithin(m \o <<2>>)
            ofU == StagesWithin(m \o <<1>>)
        IN  /\ \A j, k \in behind : trace[j].path = trace[k].path => j = k
            /\ behind # {} =>
                  /\ ofM # {}
                  /\ ofU # {}
                  /\ \A i \in ofM \cup ofU : trace[i].next
            /\ (\E i \in ofM \cup ofU : ~trace[i].next) => behind = {}

\* a request through a Merge ended with U declining, after M resolved
C2_Witness ==
    /\ request.chain.c = "Merge"
    /\ ctl.pc = "done"
    /\ StagesWithin(<<2>>) # {}
    /\ \E i \in StagesWithin(<<1>>) : ~trace[i].next
    /\ StagesBehind(<<>>) = {}

----------------------------------------------------------------------------
(* exampleProvider (providers_test.go) *)

\* chain := CurriedPreProcessModelUser(PreProcessModelUser(resources.Merge(
\*     PreProcessUser(ProvideAuthUser), PreProcessModel(ProvideModel))))
ExampleChain ==
    [c |-> "CurryUserModelProcessor", provider |->
        [c |-> "CurryUserModelProcessor", provider |->
            [c |-> "Merge",
             uP |-> [c |-> "CurryUserProcessor",
                     provider |-> [c |-> "CurryUserProvider"]],
             mP |-> [c |-> "CurryModelProcessor",
                     provider |-> [c |-> "CurryModelProvider"]]]]]

\* the documented output of chain(AcceptUserModel)(nil): M, PM, U, PU, P, Q, h
ExampleOrder ==
    << <<"CurryModelProvider", <<1, 1, 2, 1>> >>,
       <<"CurryModelProcessor.func1", <<1, 1, 2>> >>,
       <<"CurryUserProvider", <<1, 1, 1, 1>> >>,
       <<"CurryUserProcessor.func1", <<1, 1, 1>> >>,
       <<"CurryUserModelProcessor.func1", <<1>> >>,
       <<"CurryUserModelProcessor.func1", <<>> >>,
       <<"AcceptUserModel", <<0>> >> >>

ProcessorCombinators ==
    {"CurryUserProcessor", "CurryModelProcessor", "CurryUserModelProcessor",
     "LiftModelProcessor", "LiftUserModelProcessor"}

\* every stage but the terminal handler has called the handler it was given
AllForwarded ==
    \A j \in DOMAIN trace : trace[j].stage \notin AcceptHandlers => trace[j].next

\* C7: a request to chain(h), chain = Q(P(Merge(PU(U), PM(M)))), runs its
\* stages in the order M, PM, U, PU, P, Q, h, none twice, and all seven once
\* every stage forwards; and whenever a chain's outermost combinator is a
\* pre-processor, that pre-processor is the stage that runs immediately before
\* the terminal handler.
C7_StageNestingOrder ==
    /\ request.chain = ExampleChain =>
          /\ Len(trace) <= Len(ExampleOrder)
          /\ \A j \in DOMAIN trace :
                <<trace[j].stage, trace[j].path>> = ExampleOrder[j]
          /\ (ctl.pc = "done" /\ AllForwarded) => Len(trace) = Len(ExampleOrder)
    /\ request.chain.c \in ProcessorCombinators =>
          \A j \in DOMAIN trace :
              trace[j].stage \in AcceptHandlers =>
                  j > 1 /\ trace[j - 1].path = <<>>

\* the example chain has run to its terminal handler
C7_Witness ==
    /\ request.chain = ExampleChain
    /\ ctl.pc = "done"
    /\ Len(trace) = 7
    /\ trace[7].stage = "AcceptUserModel"

----------------------------------------------------------------------------
(* What a provider resolved, read off the trace *)

RECURSIVE SubChain(_, _)
\* the provider at position path of chain p
SubChain(p, path) ==
    IF path = <<>> THEN p
    ELSE CASE p.c = "Merge" ->
                 SubChain(IF Head(path) = 1 THEN p.uP ELSE p.mP, Tail(path))
           [] p.c = "UserAsModel" -> SubChain(p.mP, Tail(path))
           [] p.c = "DiscardUser" -> SubChain(p.p, Tail(path))
           [] OTHER -> SubChain(p.provider, Tail(path))

RECURSIVE ProcessorPaths(_, _)
\* the positions of the pre-processors of chain p (rooted at path)
ProcessorPaths(p, path) ==
    CASE p.c = "Merge" ->
            ProcessorPaths(p.uP, path \o <<1>>) \cup ProcessorPaths(p.mP, path \o <<2>>)
      [] p.c = "UserAsModel" -> ProcessorPaths(p.mP, path \o <<1>>)
      [] p.c = "DiscardUser" -> ProcessorPaths(p.p, path \o <<1>>)
      [] p.c \in ProcessorCombinators ->
            {path} \cup ProcessorPaths(p.provider, path \o <<1>>)
      [] OTHER -> {}

RECURSIVE BasePaths(_, _)
\* the positions of the resolving functions (Curry/Lift providers) of chain p
BasePaths(p, path) ==
    CASE p.c = "Merge" ->
            BasePaths(p.uP, path \o <<1>>) \cup BasePaths(p.mP, path \o <<2>>)
      [] p.c = "UserAsModel" -> BasePaths(p.mP, path \o <<1>>)
      [] p.c = "DiscardUser" -> BasePaths(p.p, path \o <<1>>)
      [] p.c \in ProcessorCombinators -> BasePaths(p.provider, path \o <<1>>)
      [] OTHER -> {path}

\* the stage that ran at position path
StageAt(path) == trace[CHOOSE i \in DOMAIN trace : trace[i].path = path]

RECURSIVE Resolved(_, _)
\* the values provider p (at position path) hands to its handler, given the
\* values its resolving functions produced
Resolved(p, path) ==
    CASE p.c = "Merge" ->
            [user |-> Resolved(p.uP, path \o <<1>>).user,
             model |-> Resolved(p.mP, path \o <<2>>).model]
      [] p.c = "UserAsModel" ->
            [user |-> Nil, model |-> Resolved(p.mP, path \o <<1>>).user]
      [] p.c = "DiscardUser" ->
            [user |-> Nil, model |-> Resolved(p.p, path \o <<1>>).model]
      [] p.c \in ProcessorCombinators -> Resolved(p.provider, path \o <<1>>)
      [] OTHER -> [user |-> StageAt(path).user, model |-> StageAt(path).model]

\* the stage at position path runs in, or behind, the handler given to the
\* pre-processor at position proc: the terminal handler, a combinator applied
\* outside proc, or the user side of a Merge whose model side holds proc
Behind(proc, path) ==
    \/ path = <<0>>
    \/ Len(path) < Len(proc) /\ Within(path, proc)
    \/ \E k \in 0..(Len(proc) - 1) :
          /\ proc[k + 1] = 2
          /\ Within(SubSeq(proc, 1, k) \o <<1>>, path)

\* C8: for every pre-processor of a chain (Curry or Lift): its fn runs only
\* after every resolving function of the provider it wraps has run and every
\* stage of that provider has called its handler, and it receives exactly the
\* values that provider resolved; if fn does not call the accepter it was
\* given, no later stage runs; and every stage behind the pre-processor (the
\* terminal handler above all) runs only after fn has run and called the
\* accepter.
C8_PreProcessorShortCircuit ==
    \A proc \in ProcessorPaths(request.chain, <<>>) :
        LET wrapped == SubChain(request.chain, proc).provider
        IN  /\ \A j \in DOMAIN trace :
                  trace[j].path = proc =>
                      /\ \A b \in BasePaths(wrapped, proc \o <<1>>) :
                            \E i \in 1..(j - 1) : trace[i].path = b
                      /\ \A i \in StagesWithin(proc \o <<1>>) : i < j /\ trace[i].next
                      /\ [user |-> trace[j].user, model |-> trace[j].model]
                             = Resolved(wrapped, proc \o <<1>>)
                      /\ ~trace[j].next => j = Len(trace)
            /\ \A j \in DOMAIN trace :
                  Behind(proc, trace[j].path) =>
                      \E i \in 1..(j - 1) : trace[i].path = proc /\ trace[i].next

\* a pre-processor ran on resolved values and declined: the request ended there
C8_Witness ==
    /\ ctl.pc = "done"
    /\ Len(trace) >= 2
    /\ trace[Len(trace)].stage \in {"CurryUserModelProcessor.func1",
                                    "LiftUserModelProcessor.func1"}
    /\ ~trace[Len(trace)].next
    /\ trace[Len(trace)].user # Nil
    /\ trace[Len(trace)].model # Nil

----------------------------------------------------------------------------
(* The lookup stage, read off the request, the trace and the response *)

Finders == {"ProvideModelForKey", "PublicFinder"}
TerminalHandlers == {"Get", "Delete", "Post", "Patch", "Collection"}

\* the path identifier the lookup stage of the request reads
LookupID ==
    Param(request.params,
          IF request.chain.c = "ProvideModelForKey" THEN request.chain.key ELSE "id")

\* where in the trace the lookup stage ran, the ownership check ran, the
\* route's handler ran
LookupRuns == {i \in DOMAIN trace : trace[i].stage \in Finders}
CheckRuns == {i \in DOMAIN trace : trace[i].stage = "PrivateFinder"}
HandlerRuns == {i \in DOMAIN trace : trace[i].stage \in TerminalHandlers}

\* the database answered every call so far without a fault of the driver
Answered == \A i \in DOMAIN dbLog : dbLog[i].err # DriverError

\* the response carries a 404 / a 401
Wrote(code) == \E i \in DOMAIN response.calls : response.calls[i][2] = code

\* the record with this identifier as the request found it in storage
Stored(n) == Load(n, before[n])

\* stage i of the trace called its continuation exactly once with record s:
\* the call is either pending or is the next entry of the trace
CalledOnceWith(i, s) ==
    /\ trace[i].next
    /\ trace[i].model = s
    /\ IF i = Len(trace)
       THEN /\ ctl.pc = "handler"
            /\ ctl.model = s
       ELSE /\ trace[i + 1].model = s
            /\ Cardinality({j \in DOMAIN trace : j > i /\ trace[j].stage = trace[i + 1].stage}) = 1

\* stage i of the trace ended the request without calling its continuation
NeverCalled(i) ==
    /\ ~trace[i].next
    /\ i = Len(trace)
    /\ ctl.pc = "done"

\* C3: PrivateFinder(h) called with identity u on a request whose id
\* resolves to record s answers 401 and never calls h when s.OwnerID() is
\* not u.GetID(); when they are equal it calls h exactly once with s, the
\* record as stored.  (The nil User is no identity: it has no GetID.)
C3_OwnershipCheck ==
    \A i \in CheckRuns :
       LET u == trace[i].user
           s == trace[i].model
       IN  /\ s = trace[i - 1].model
           /\ s = Stored(s.ID)
           /\ u \in Identities =>
              IF s.UserID # u.ID
              THEN /\ response.status = 401
                   /\ NeverCalled(i)
                   /\ ~ctl.panicked
                   /\ HandlerRuns = {}
              ELSE /\ ~Wrote(401)
                   /\ CalledOnceWith(i, s)
                   /\ i < Len(trace) =>
                         /\ trace[i + 1].stage = request.handler
                         /\ HandlerRuns = {i + 1}

\* a request by an identity that does not own the record it names was
\* answered 401
C3_Witness ==
    /\ ctl.pc = "done"
    /\ request.chain.c = "PrivateFinder"
    /\ CheckRuns # {}
    /\ \E i \in CheckRuns : /\ trace[i].user \in Identities
                             /\ trace[i].model.UserID # trace[i].user.ID
    /\ response.status = 401

\* C4: for a path identifier that is the identifier of a record present in
\* storage, the lookup stage calls its continuation exactly once with the
\* record of that identifier and writes no 404 (the database answering)
C4_LookupResolvesTheRecord ==
    \A i \in LookupRuns :
       (/\ MatchWholeString(LookupID)
        /\ ToInteger(LookupID) \in Visible(before)
        /\ Answered)
       => /\ LookupRuns = {i}
          /\ CalledOnceWith(i, Stored(ToInteger(LookupID)))
          /\ trace[i].model.ID = ToInteger(LookupID)
          /\ ~Wrote(404)

\* the second of two records was looked up and handed to Get
C4_Witness ==
    /\ ctl.pc = "done"
    /\ LookupID = <<"2">>
    /\ Visible(before) = {1, 2}
    /\ LookupRuns # {}
    /\ HandlerRuns # {}
    /\ response.status = 200
    /\ response.body = <<Stored(2)>>

\* C5: for every path parameter that is not a non-empty string of decimal
\* digits only, the lookup stage answers 404 and never calls its
\* continuation (the database, if asked at all, answering)
C5_LexicallyInvalidIs404 ==
    \A i \in LookupRuns :
       (~MatchWholeString(LookupID) /\ Answered)
       => /\ response.status = 404
          /\ NeverCalled(i)
          /\ ~ctl.panicked

\* the parameter "1a" matched regexpID and went to the database
C5_Witness ==
    /\ LookupID = <<"1", "a">>
    /\ LookupRuns # {}
    /\ \E i \in DOMAIN dbLog : dbLog[i].op = "First" /\ dbLog[i].arg = LookupID

\* C6: for every digits-only path identifier for which storage holds no
\* record, "0" and the identifier one past the last record included, the
\* lookup stage answers 404 and never calls its continuation (the database
\* answering)
C6_AbsentIs404 ==
    \A i \in LookupRuns :
       (/\ MatchWholeString(LookupID)
        /\ ToInteger(LookupID) \notin Visible(before)
        /\ Answered)
       => /\ response.status = 404
          /\ NeverCalled(i)
          /\ ~ctl.panicked
          /\ HandlerRuns = {}

\* the identifier one past the last record was answered 404
C6_Witness ==
    /\ ctl.pc = "done"
    /\ Len(before) >= 1
    /\ MatchWholeString(LookupID)
    /\ ToInteger(LookupID) = Len(before) + 1
    /\ LookupRuns # {}
    /\ response.status = 404

----------------------------------------------------------------------------
(* Create, read off the request, the response and the table *)

\* where in the trace Post ran, once it has returned or panicked
PostRuns == {i \in DOMAIN trace : trace[i].stage = "Post" /\ ctl.pc = "done"}

\* the body is no JSON, or leaves the required field out
Unbindable(body) == body.kind = "malformed" \/ body.Text = ""

\* the database created a record for this request
Created == \E i \in DOMAIN dbLog : dbLog[i].op = "Create" /\ dbLog[i].err = NoError

\* the identifier and the record the request added to the table
NewID == Len(before) + 1
NewRecord == Load(NewID, table[NewID])

\* exactly one record was added: content of the body, and answered 201
\* with the record as body and the linker's URL, made absolute, as Location
CreatedOne ==
    /\ Len(table) = Len(before) + 1
    /\ SubSeq(table, 1, Len(before)) = before
    /\ NewRecord.Text = request.body.Text
    /\ response.status = 201
    /\ Len(response.body) = 1
    /\ GetID(response.body[1]) = NewID
    /\ Row(response.body[1]) = table[NewID]
    /\ response.location = absURL(linker(NewID))

\* C9: Post with a body that fails to bind answers 422 with a body
\* {error: message}; no record is persisted, the table is as before; no
\* Location header and no 201 are produced
C9_BindFailureIs422 ==
    \A i \in PostRuns :
       Unbindable(request.body)
       => /\ ctl = Returned
          /\ response.status = 422
          /\ Len(response.body) = 1
          /\ DOMAIN response.body[1] = {"error"}
          /\ response.body[1].error \in {ErrRequestMissingAttrs.msg,
                                         ErrRequestMissingMomentAttrs.msg}
          /\ table = before
          /\ dbLog = <<>>
          /\ response.location = Nil
          /\ ~Wrote(201)

\* a body without the required field was answered 422 while the table
\* holds a record
C9_Witness ==
    /\ ctl.pc = "done"
    /\ PostRuns # {}
    /\ request.body.kind = "json"
    /\ request.body.Text = ""
    /\ request.body.UserID # 0
    /\ response.status = 422
    /\ Len(table) >= 1

\* C10 as claimed: Post with a body that binds and a Create that succeeds
\* persists exactly one record with the content of the body, its owner
\* identifier the resolved user's and its parent identifier the resolved
\* parent's, and answers 201 with the record and the Location
C10_OwnerIsUserParentIsParent ==
    \A i \in PostRuns :
       (~Unbindable(request.body) /\ Created)
       => /\ CreatedOne
          /\ OwnerID(NewRecord) = GetID(trace[i].user)
          /\ build = "part_001" => ParentID(NewRecord) = GetID(trace[i].model)

\* C10: Post with a body that binds and a Create that succeeds persists
\* exactly one record with the content of the body and answers 201 with the
\* record and the Location.  With the Record of the later New, whose
\* SetOwner is its SetParent, owner and parent identifier are both the
\* resolved parent's; with handler.go the owner identifier is the user's.
C10_CreatedRecordOwnedThroughParent ==
    \A i \in PostRuns :
       (~Unbindable(request.body) /\ Created)
       => /\ CreatedOne
          /\ IF build = "part_001"
             THEN /\ OwnerID(NewRecord) = GetID(trace[i].model)
                  /\ ParentID(NewRecord) = GetID(trace[i].model)
                  /\ (OwnerID(NewRecord) = GetID(trace[i].user))
                        <=> (GetID(trace[i].user) = GetID(trace[i].model))
             ELSE OwnerID(NewRecord) = GetID(trace[i].user)

\* a record was created for a user and a parent of different identifiers
\* from a body that names a third owner
C10_Witness ==
    /\ ctl.pc = "done"
    /\ build = "part_001"
    /\ PostRuns # {}
    /\ Created
    /\ response.status = 201
    /\ \E i \in PostRuns :
          /\ GetID(trace[i].user) # GetID(trace[i].model)
          /\ request.body.UserID \notin {0, GetID(trace[i].model)}

----------------------------------------------------------------------------
(* Create when db.Create fails *)

\* the errors db.Create returned to the request
CreateErrors ==
    {dbLog[i].err : i \in {j \in DOMAIN dbLog :
                              dbLog[j].op = "Create" /\ dbLog[j].err # NoError}}

\* C11: when db.Create fails with an error whose type is AcceptableError,
\* Post does not panic and answers 422 with the error as {error: message}
\* for a body
C11_AcceptableErrorIs422 ==
    \A i \in PostRuns :
       \A err \in CreateErrors :
          err.type = AcceptableError
          => /\ ctl = Returned
             /\ response.status = 422
             /\ response.body = <<[error |-> err.msg]>>

\* Post answered 422 to an error of the acceptable type
C11_Witness ==
    /\ ctl = Returned
    /\ PostRuns # {}
    /\ \E err \in CreateErrors : err.type = AcceptableError
    /\ response.status = 422
    /\ response.body[1] = [error |-> HookError.msg]

\* C12: when db.Create fails with an error whose type is not AcceptableError
\* (every error when AcceptableError is unset), the failure leaves Post as a
\* panic; the handler writes no status, body or Location header, and no
\* record is persisted
C12_OtherCreateErrorPanics ==
    \A i \in PostRuns :
       \A err \in CreateErrors :
          err.type # AcceptableError
          => /\ ctl = Panicked
             /\ response = NoResponse
             /\ table = before

\* the hook's error, with AcceptableError unset, and a driver's error, with
\* AcceptableError set to another type, left Post as a panic
C12_Witness ==
    /\ ctl = Panicked
    /\ PostRuns # {}
    /\ \/ AcceptableError = "nil" /\ CreateErrors = {HookError}
       \/ AcceptableError # "nil" /\ CreateErrors = {DriverError}

----------------------------------------------------------------------------
(* Update, read off the request, the response and the table *)

PatchRuns == {i \in DOMAIN trace : trace[i].stage = "Patch"}

\* the database wrote an update for this request
Updated == \E i \in DOMAIN dbLog : dbLog[i].op = "Updates" /\ dbLog[i].err = NoError

\* the record under identifier n as it is stored now
StoredNow(n) == Load(n, RowWithID(table, n))

\* C13: Patch with a body that binds changes, in storage, exactly the
\* fields the body submits on the resolved record; every other field of
\* that record and every other record stay as they were; the status is 200
\* (what becomes of a submitted identifier is left to C18)
C13_PatchChangesSubmittedFieldsOnly ==
    \A i \in PatchRuns :
       (~Unbindable(request.body) /\ Updated)
       => /\ response.status = 200
          /\ Len(table) = Len(before)
          /\ \A j \in DOMAIN before :
                IF before[j].ID = trace[i].model.ID
                THEN /\ table[j].Text = request.body.Text
                     /\ table[j].UserID = IF request.body.UserID # 0
                                          THEN request.body.UserID
                                          ELSE before[j].UserID
                     /\ table[j].deleted = before[j].deleted
                ELSE table[j] = before[j]

\* an update of record 1 whose body names record 2 was answered 200 and
\* rewrote record 2
C13_Witness ==
    /\ ctl = Returned
    /\ PatchRuns # {}
    /\ Updated
    /\ response.status = 200
    /\ \E i \in PatchRuns : trace[i].model.ID = 1
    /\ request.body.ID = 2
    /\ Len(before) = 2
    /\ table[1] = before[1]
    /\ table[2] # before[2]

\* C14: Patch with a body that fails to bind answers 422 with a body
\* {error: message}, and storage is unchanged: the resolved record keeps
\* every field it had
C14_PatchBindFailureIs422 ==
    \A i \in PatchRuns :
       Unbindable(request.body)
       => /\ ctl = Returned
          /\ response.status = 422
          /\ Len(response.body) = 1
          /\ DOMAIN response.body[1] = {"error"}
          /\ response.body[1].error \in {ErrRequestMissingAttrs.msg,
                                         ErrRequestMissingMomentAttrs.msg}
          /\ table = before
          /\ StoredNow(trace[i].model.ID) = trace[i].model
          /\ \A k \in DOMAIN dbLog : dbLog[k].op # "Updates"

\* an update that names an owner and an identifier but no Text was
\* answered 422
C14_Witness ==
    /\ ctl = Returned
    /\ PatchRuns # {}
    /\ request.body.kind = "json"
    /\ request.body.Text = ""
    /\ request.body.UserID # 0
    /\ request.body.ID # 0
    /\ response.status = 422

\* C15: the body Patch answers with at status 200 is the updated record:
\* the resolved record as it is stored after the update, with its
\* identifier, its owner and the merged fields
C15_PatchAnswersTheUpdatedRecord ==
    \A i \in PatchRuns :
       (~Unbindable(request.body) /\ Updated)
       => /\ response.status = 200
          /\ response.body = <<StoredNow(trace[i].model.ID)>>

\* an update that submits only Text was answered 200 with a record of
\* identifier 0
C15_Witness ==
    /\ ctl = Returned
    /\ PatchRuns # {}
    /\ Updated
    /\ request.body.ID = 0
    /\ request.body.UserID = 0
    /\ response.status = 200
    /\ GetID(response.body[1]) = 0

\* C18: after any Create, Patch and Delete requests, whatever their bodies,
\* every persisted record has the identifier it was given when it was
\* created (the one the insert's place in the id sequence gave it)
C18_IdentifierImmutable ==
    \A i \in DOMAIN table : table[i].ID = i

\* an update whose body names an identifier other than the resolved
\* record's was written, with two records stored
C18_Witness ==
    /\ ctl = Returned
    /\ PatchRuns # {}
    /\ Updated
    /\ Len(table) = 2
    /\ \E i \in PatchRuns : request.body.ID \notin {0, trace[i].model.ID}

----------------------------------------------------------------------------
(* Delete, Get and Collection *)

\* the step is Delete's and db.Delete succeeded
DeleteSucceeds ==
    /\ ctl.pc = "handler"
    /\ Head(ctl.handler).f = "Delete"
    /\ ctl' = Returned

\* the identifiers of the rows deleted before the request
Deleted(t) == {t[i].ID : i \in {j \in DOMAIN t : t[j].deleted}}

\* C16: a Delete that succeeds answers 204 with an empty body and removes
\* the record, and only it, from what lookups see; a deleted record is never
\* seen again (no record is created under its identifier); every later
\* lookup of its identifier answers 404 and never calls its continuation
C16_DeleteThenLookupIs404 ==
    /\ [][DeleteSucceeds =>
             /\ response'.status = 204
             /\ response'.body = <<>>
             /\ Visible(table') = Visible(table) \ {ctl.model.ID}
             /\ \A i \in DOMAIN table :
                   table[i].ID # ctl.model.ID => table'[i] = table[i]]_vars
    /\ [][\A i \in DOMAIN table :
             table[i].deleted => i \in DOMAIN table' /\ table'[i] = table[i]]_vars
    /\ [](\A i \in LookupRuns :
             (/\ MatchWholeString(LookupID)
              /\ ToInteger(LookupID) \in Deleted(before)
              /\ Answered)
             => /\ response.status = 404
                /\ NeverCalled(i)
                /\ HandlerRuns = {})

\* the lookup of a record deleted by an earlier request was answered 404
\* while the other record is still there
C16_Witness ==
    /\ ctl = Returned
    /\ LookupRuns # {}
    /\ MatchWholeString(LookupID)
    /\ ToInteger(LookupID) \in Deleted(before)
    /\ Visible(before) # {}
    /\ response.status = 404

GetRuns == {i \in DOMAIN trace : trace[i].stage = "Get"}
CollectionRuns == {i \in DOMAIN trace : trace[i].stage = "Collection"}

\* C17: Get and Collection change nothing in storage; Get answers 200 with
\* the resolved record, Collection 200 with the records related to the
\* resolved owner (the owner being a user and the database answering).
\* Status and body are so a function of the request and the storage it
\* meets: over unchanged storage every repetition gets the same answer.
C17_GetAndCollectionReadOnly ==
    /\ \A i \in GetRuns :
          /\ table = before
          /\ \A k \in DOMAIN dbLog : dbLog[k].op = "First"
          /\ ctl = Returned
          /\ response.status = 200
          /\ response.body = <<trace[i].model>>
          /\ LookupRuns # {} =>
                /\ trace[i].model = Stored(trace[i].model.ID)
                /\ MatchWholeString(LookupID) => trace[i].model.ID = ToInteger(LookupID)
    /\ \A i \in CollectionRuns :
          LET owner == IF build = "part_001" THEN trace[i].model ELSE trace[i].user
              mine  == {n \in Visible(before) : Stored(n).UserID = owner.ID}
          IN  /\ table = before
              /\ \A k \in DOMAIN dbLog : dbLog[k].op = "Related"
              /\ (owner \in UserValues /\ Answered) =>
                    /\ ctl = Returned
                    /\ response.status = 200
                    /\ Len(response.body) = 1
                    /\ Len(response.body[1]) = Cardinality(mine)
                    /\ {response.body[1][k] : k \in DOMAIN response.body[1]}
                          = {Stored(n) : n \in mine}

\* a Collection whose collection() is the tests' slice by value, for a user
\* who owns a stored record: the handler panicked and nothing was written
C17_Witness ==
    /\ ctl = Panicked
    /\ CollectionRuns # {}
    /\ request.chain.collection = ByValue
    /\ \E i \in CollectionRuns :
          LET owner == IF build = "part_001" THEN trace[i].model ELSE trace[i].user
          IN  /\ owner \in UserValues
              /\ \E n \in Visible(before) : Stored(n).UserID = owner.ID
    /\ \E k \in DOMAIN dbLog : dbLog[k].err = UnaddressableValue
    /\ response = NoResponse

----------------------------------------------------------------------------
(* UserAsModel and DiscardUser, read off the trace *)

RECURSIVE PathsOf(_, _, _)
\* the positions of the combinators named c in chain p (rooted at path)
PathsOf(c, p, path) ==
    (IF p.c = c THEN {path} ELSE {})
    \cup CASE p.c = "Merge" ->
                 PathsOf(c, p.uP, path \o <<1>>) \cup PathsOf(c, p.mP, path \o <<2>>)
           [] p.c = "UserAsModel" -> PathsOf(c, p.mP, path \o <<1>>)
           [] p.c = "DiscardUser" -> PathsOf(c, p.p, path \o <<1>>)
           [] p.c \in ProcessorCombinators -> PathsOf(c, p.provider, path \o <<1>>)
           [] OTHER -> {}

RECURSIVE Order(_, _)
\* the positions of chain p (rooted at path) in the order their stages run
\* when every stage forwards: a Merge's model side before its user side, a
\* pre-processor after the provider it wraps
Order(p, path) ==
    CASE p.c = "Merge" -> Order(p.mP, path \o <<2>>) \o Order(p.uP, path \o <<1>>)
      [] p.c = "UserAsModel" -> Order(p.mP, path \o <<1>>)
      [] p.c = "DiscardUser" -> Order(p.p, path \o <<1>>)
      [] p.c \in ProcessorCombinators -> Order(p.provider, path \o <<1>>) \o <<path>>
      [] p.c = "none" -> <<>>
      [] OTHER -> <<path>>

\* the provider at position path has called the handler it was given: its
\* outermost stage, the last of its stages to run, has
Forwarded(path) ==
    LET last == Order(SubChain(request.chain, path), path)
    IN  \E i \in DOMAIN trace : trace[i].path = last[Len(last)] /\ trace[i].next

\* the closure named f is the one called next
Pending(f) == ctl.pc = "handler" /\ Head(ctl.handler).f = f

\* the terminal handler, when it has run, ran with the values the chain
\* resolves
HandlerGotResolved ==
    \A j \in DOMAIN trace :
       trace[j].stage \in AcceptHandlers =>
          [user |-> trace[j].user, model |-> trace[j].model]
             = Resolved(request.chain, <<>>)

\* C19: UserAsModel(P)(h).  When P resolves an identity that is a DBModel,
\* h is called, once, with that value as the record; when the identity is
\* no DBModel the stage panics and h is never called; when a stage of P
\* ends the request, h is never called.
C19_UserAsModel ==
    /\ [][Pending("UserAsModel.func1") =>
             IF ctl.user \in UserValues
             THEN /\ ctl'.pc = "handler"
                  /\ ctl'.handler = Tail(ctl.handler)
                  /\ ctl'.model = ctl.user
             ELSE /\ ctl' = Panicked
                  /\ trace' = trace]_vars
    /\ [](Pending("UserAsModel.func1") =>
             \E u \in PathsOf("UserAsModel", request.chain, <<>>) :
                /\ Forwarded(u \o <<1>>)
                /\ StagesBehind(u) = {}
                /\ ctl.user
                      = Resolved(SubChain(request.chain, u \o <<1>>), u \o <<1>>).user)
    /\ [](\A u \in PathsOf("UserAsModel", request.chain, <<>>) :
             LET inP    == StagesWithin(u \o <<1>>)
                 behind == StagesBehind(u)
                 w      == Resolved(SubChain(request.chain, u \o <<1>>), u \o <<1>>).user
             IN  /\ behind # {} =>
                       /\ Forwarded(u \o <<1>>)
                       /\ \A i \in inP : trace[i].next
                       /\ w \in UserValues
                 /\ \A j, k \in behind : trace[j].path = trace[k].path => j = k
                 /\ (\E i \in inP : ~trace[i].next) => behind = {} /\ ctl = Returned
                 /\ (Forwarded(u \o <<1>>) /\ w \notin UserValues) =>
                       /\ behind = {}
                       /\ Pending("UserAsModel.func1") \/ ctl = Panicked
                 /\ ctl = Panicked => Forwarded(u \o <<1>>) /\ w \notin UserValues
                 /\ request.chain.c = "UserAsModel" => HandlerGotResolved)

\* UserAsModel(P)(h) has called h with the user P resolved
C19_Witness ==
    /\ request.chain.c = "UserAsModel"
    /\ request.chain.mP.c # "CurryUserProvider"
    /\ ctl = Returned
    /\ trace[Len(trace)].stage = "AcceptModel"
    /\ trace[Len(trace)].model \in UserValues
    /\ trace[Len(trace)].model = trace[1].user

\* C20: DiscardUser(J)(h) is J with the identity dropped.  The stages of J
\* run in the order they run in for J(h') (the order of every chain is
\* Order, wherever it is rooted); h is called when, and as often as, J calls
\* its joint handler, with the record J supplied and no identity.
C20_DiscardUser ==
    /\ [][Pending("DiscardUser.func1") =>
             /\ ctl'.pc = "handler"
             /\ ctl'.handler = Tail(ctl.handler)
             /\ ctl'.model = ctl.model
             /\ ctl'.user = Nil]_vars
    /\ [](/\ \A i \in DOMAIN trace :
                trace[i].stage \notin AcceptHandlers =>
                   /\ i <= Len(Order(request.chain, <<>>))
                   /\ trace[i].path = Order(request.chain, <<>>)[i]
          /\ request.chain.c \in {"DiscardUser", "Merge", "CurryUserModelProcessor",
                                  "LiftUserModelProcessor"} => HandlerGotResolved
          /\ Pending("DiscardUser.func1") =>
                \E d \in PathsOf("DiscardUser", request.chain, <<>>) :
                   /\ Forwarded(d \o <<1>>)
                   /\ StagesBehind(d) = {}
                   /\ ctl.model
                         = Resolved(SubChain(request.chain, d \o <<1>>), d \o <<1>>).model
          /\ \A d \in PathsOf("DiscardUser", request.chain, <<>>) :
                LET J      == SubChain(request.chain, d \o <<1>>)
                    alone  == Order(J, <<>>)
                    behind == StagesBehind(d)
                IN  /\ Order(J, d \o <<1>>)
                          = [k \in DOMAIN alone |-> d \o <<1>> \o alone[k]]
                    /\ behind # {} => Forwarded(d \o <<1>>)
                    /\ \A j, k \in behind : trace[j].path = trace[k].path => j = k
                    /\ (Forwarded(d \o <<1>>) /\ ctl.pc = "done") => behind # {})

\* DiscardUser over a Merge has called h with the Merge's record
C20_Witness ==
    /\ request.chain.c = "DiscardUser"
    /\ request.chain.p.c = "Merge"
    /\ ctl = Returned
    /\ Len(trace) >= 3
    /\ trace[Len(trace)].stage = "AcceptModel"
    /\ trace[Len(trace)].user = Nil
    /\ trace[Len(trace)].model \in UserValues

----------------------------------------------------------------------------
(* Values through Merge *)

\* handler ends with the frames of suffix
EndsWith(handler, suffix) ==
    /\ Len(suffix) <= Len(handler)
    /\ SubSeq(handler, Len(handler) - Len(suffix) + 1, Len(handler)) = suffix

\* C21: Merge forwards what was resolved, untransformed.  Its outer closure
\* captures the record M resolved and runs U for the same request; its inner
\* closure calls h with the identity U resolved and that record, neither
\* swapped nor replaced, and the request's context is the one the request
\* came in with.
C21_MergeForwardsUntransformed ==
    /\ [][Pending("Merge.func1") =>
             /\ ctl'.pc = "call"
             /\ EndsWith(ctl'.handler,
                         <<[f |-> "Merge.func2", model |-> ctl.model]>>
                             \o Tail(ctl.handler))
             /\ UNCHANGED <<request, response>>]_vars
    /\ [][Pending("Merge.func2") =>
             /\ ctl'.pc = "handler"
             /\ ctl'.handler = Tail(ctl.handler)
             /\ ctl'.user = ctl.user
             /\ ctl'.model = Head(ctl.handler).model
             /\ UNCHANGED <<request, response>>]_vars
    /\ [](Pending("Merge.func2") =>
             \E m \in MergePaths(request.chain, <<>>) :
                LET merge == SubChain(request.chain, m)
                IN  /\ Forwarded(m \o <<1>>)
                    /\ Forwarded(m \o <<2>>)
                    /\ StagesBehind(m) = {}
                    /\ ctl.user = Resolved(merge.uP, m \o <<1>>).user
                    /\ Head(ctl.handler).model = Resolved(merge.mP, m \o <<2>>).model)
    /\ [](MergePaths(request.chain, <<>>) # {} => HandlerGotResolved)

\* Merge(U, M)(h) has called h with U's identity and M's record, which differ
C21_Witness ==
    /\ request.chain.c = "Merge"
    /\ ctl = Returned
    /\ Len(trace) = 3
    /\ trace[3].stage = "AcceptUserModel"
    /\ trace[3].user = trace[2].user
    /\ trace[3].model = trace[1].model
    /\ trace[3].user # trace[3].model
    /\ trace[3].user \in UserValues

----------------------------------------------------------------------------
(* The provider adapters *)

ProviderAdapters ==
    {"CurryUserProvider", "CurryModelProvider", "LiftUserProvider", "LiftModelProvider"}

\* the Curry name of an adapter or of one of its closures
Curried(name) ==
    CASE name = "LiftUserProvider" -> "CurryUserProvider"
      [] name = "LiftModelProvider" -> "CurryModelProvider"
      [] name = "LiftModelProcessor" -> "CurryModelProcessor"
      [] name = "LiftUserModelProcessor" -> "CurryUserModelProcessor"
      [] name = "LiftModelProcessor.func1" -> "CurryModelProcessor.func1"
      [] name = "LiftUserModelProcessor.func1" -> "CurryUserModelProcessor.func1"
      [] OTHER -> name

RECURSIVE CurriedChain(_)
\* chain p composed with the Curry adapters in place of the Lift ones
CurriedChain(p) ==
    CASE p.c = "Merge" ->
            [c |-> "Merge", uP |-> CurriedChain(p.uP), mP |-> CurriedChain(p.mP)]
      [] p.c = "UserAsModel" -> [c |-> "UserAsModel", mP |-> CurriedChain(p.mP)]
      [] p.c = "DiscardUser" -> [c |-> "DiscardUser", p |-> CurriedChain(p.p)]
      [] p.c \in ProcessorCombinators ->
            [c |-> Curried(p.c), provider |-> CurriedChain(p.provider)]
      [] OTHER -> [c |-> Curried(p.c)]

\* a continuation with its closures under their Curry names
CurriedHandler(handler) ==
    [k \in DOMAIN handler |->
        IF "inner" \in DOMAIN handler[k]
        THEN [handler[k] EXCEPT !.inner = CurriedChain(@)]
        ELSE [handler[k] EXCEPT !.f = Curried(@)]]

\* a gin.HandlerFunc with its adapter under its Curry name
CurriedFunc(handlerFunc) ==
    [fn |-> Curried(handlerFunc.fn), path |-> handlerFunc.path,
     handler |-> CurriedHandler(handlerFunc.handler)]

\* the adapter's closure runs fn(handler, ctx) once and does nothing else:
\* one stage is added to the trace, under the adapter's position, and fn was
\* given the very handler the adapter was applied to
FnCalledOnce ==
    /\ Len(trace') = Len(trace) + 1
    /\ SubSeq(trace', 1, Len(trace)) = trace
    /\ LET ran == trace'[Len(trace')]
       IN  /\ ran.stage = ctl.fn
           /\ ran.path = ctl.path
           /\ ctl' = IF ran.next THEN Continue(ctl.handler, ran.user, ran.model)
                     ELSE Returned
    /\ UNCHANGED <<request, response>>

\* what fn may do with the handler is open to it whichever adapter wraps it
FnUnconstrained ==
    LET values == IF ctl.fn \in {"CurryUserProvider", "LiftUserProvider"}
                  THEN {[user |-> u, model |-> Nil] : u \in ProvidedUsers}
                  ELSE {[user |-> Nil, model |-> m] : m \in ProvidedModels}
    IN  /\ \A v \in values :
              ENABLED (NextPipe /\ ctl' = Continue(ctl.handler, v.user, v.model))
        /\ ENABLED (NextPipe /\ ctl' = Returned)

\* C22: the provider adapters add nothing.  Building the route runs no fn;
\* at request time the adapter's closure makes one call fn(handler, ctx) and
\* nothing else, so that each adapter of a chain runs its fn at most once per
\* request; and a chain composed with the Lift adapters is, closure for
\* closure, the chain composed with the Curry adapters, with the same steps
\* open to it.
C22_AdaptersAddNoSemantics ==
    /\ [][ctl.pc = "idle" => trace' = <<>> /\ ctl'.pc = "call"]_vars
    /\ [][ctl.pc = "call" => FnCalledOnce]_vars
    /\ [](ctl.pc = "call" =>
             /\ ctl.fn \in ProviderAdapters
             /\ ctl.fn = SubChain(request.chain, ctl.path).c
             /\ FnUnconstrained)
    /\ [](\A b \in BasePaths(request.chain, <<>>) :
             /\ Cardinality({i \in DOMAIN trace : trace[i].path = b}) <= 1
             /\ \A i \in DOMAIN trace :
                   trace[i].path = b => trace[i].stage = SubChain(request.chain, b).c)
    /\ [](request # NoRequest =>
             CurriedFunc(Apply(request.chain, <<>>, <<[f |-> request.handler]>>))
                = Apply(CurriedChain(request.chain), <<>>, <<[f |-> request.handler]>>))

\* a chain of Lift adapters has run both its fns, once each, and its handler
C22_Witness ==
    /\ request.chain = [c |-> "Merge", uP |-> [c |-> "LiftUserProvider"],
                                       mP |-> [c |-> "LiftModelProvider"]]
    /\ ctl = Returned
    /\ Len(trace) = 3
    /\ trace[1].stage = "LiftModelProvider"
    /\ trace[2].stage = "LiftUserProvider"
    /\ trace[3].stage = "AcceptUserModel"

----------------------------------------------------------------------------
(* The pipeline as a state machine *)

\* the terminal handler ran
Terminal == \E i \in DOMAIN trace : trace[i].stage \in AcceptHandlers

\* a stage declined to call the handler it was given
ShortCircuited ==
    \E i \in DOMAIN trace : trace[i].stage \notin AcceptHandlers /\ ~trace[i].next

\* a panic left the pipeline
Fault == ctl.pc = "done" /\ ctl.panicked

\* the stages that have run, the terminal handler apart
StageRuns == {i \in DOMAIN trace : trace[i].stage \notin AcceptHandlers}

\* C24: the pipeline is a state machine without revisits.  Every request
\* that has started ends; it ends in exactly one of Terminal, ShortCircuited
\* and a fatal fault; by then at most as many stages have run as the chain
\* composes, none of them twice; and an ended request takes no further step.
C24_PipelineStateMachine ==
    /\ (ctl.pc \in {"call", "handler"}) ~> (ctl.pc = "done")
    /\ [](ctl.pc = "done" =>
             /\ Terminal \/ ShortCircuited \/ Fault
             /\ ~(Terminal /\ ShortCircuited)
             /\ ~(Terminal /\ Fault)
             /\ ~(ShortCircuited /\ Fault))
    /\ [](/\ Cardinality(StageRuns) <= Len(Order(request.chain, <<>>))
          /\ \A i, j \in DOMAIN trace : trace[i].path = trace[j].path => i = j
          /\ Terminal => trace[Len(trace)].stage \in AcceptHandlers
                         /\ \A i \in StageRuns : trace[i].next
                         /\ Cardinality(StageRuns) = Len(Order(request.chain, <<>>))
          /\ ShortCircuited => ~trace[Len(trace)].next /\ ctl.pc = "done")
    /\ [][ctl.pc = "done" => ctl'.pc = "idle"]_vars

\* a chain of five stages has run them all and its handler
C24_Witness ==
    /\ ctl = Returned
    /\ Terminal
    /\ Len(Order(request.chain, <<>>)) = MaxDepth + 1
    /\ Len(trace) = MaxDepth + 2

\* C27: in Merge(U, M), U is started only from inside M's continuation.
\* When a stage of M ends the request, or M faults, no stage of U runs and U
\* is not called: whatever U would do to the response does not happen.
C27_UserStageNotStartedWhenModelEndsEarly ==
    \A m \in MergePaths(request.chain, <<>>) :
       LET inU == StagesWithin(m \o <<1>>)
           inM == StagesWithin(m \o <<2>>)
       IN  /\ (\E i \in inM : ~trace[i].next) => inU = {}
           /\ inU # {} => Forwarded(m \o <<2>>)
           /\ (ctl.pc = "call" /\ Within(m \o <<1>>, ctl.path)) =>
                 Forwarded(m \o <<2>>)
           /\ (ctl = Panicked /\ ~Forwarded(m \o <<2>>)) => inU = {}

\* the model side of a Merge ended the request and the user side never ran
C27_Witness ==
    /\ request.chain.c = "Merge"
    /\ request.chain.mP.c = "CurryModelProcessor"
    /\ ctl = Returned
    /\ Len(trace) = 2
    /\ trace[1].next
    /\ ~trace[2].next
    /\ trace[2].path = <<2>>

----------------------------------------------------------------------------
(* Not found before unauthorized *)

\* the path identifier is the identifier of a record the request found stored
NamesRecord == MatchWholeString(LookupID) /\ ToInteger(LookupID) \in Visible(before)

\* C25: PrivateFinder runs the lookup first and compares the owners only of
\* a record the lookup found.  For a path identifier that is invalid or names
\* no record the answer is 404 whoever asks, without the owners being
\* compared; 401 is written only for the identifier of a record that exists
\* (the database answering).
C25_NotFoundBeforeUnauthorized ==
    request.chain.c = "PrivateFinder" =>
       /\ \A i \in CheckRuns :
             /\ i > 1
             /\ trace[i - 1].stage = "PublicFinder"
             /\ trace[i - 1].next
             /\ trace[i].model = Stored(trace[i].model.ID)
       /\ Wrote(401) => CheckRuns # {} /\ NamesRecord
       /\ \A i \in LookupRuns :
             (~NamesRecord /\ Answered)
             => /\ response.status = 404
                /\ NeverCalled(i)
                /\ CheckRuns = {}
                /\ ~Wrote(401)

\* the identifier "1a" was looked up for an identity that does not own
\* record 1 and answered 401
C25_Witness ==
    /\ request.chain.c = "PrivateFinder"
    /\ LookupID = <<"1", "a">>
    /\ CheckRuns # {}
    /\ response.status = 401

----------------------------------------------------------------------------
(* One outcome for each Post *)

\* the calls of ctx.JSON the request made with this status
JSONCalls(code) == {i \in DOMAIN response.calls : response.calls[i] = <<"JSON", code>>}

\* the request was answered 422 with an error object and nothing else
Answered422 ==
    /\ response.status = 422
    /\ Len(response.body) = 1
    /\ DOMAIN response.body[1] = {"error"}
    /\ response.location = Nil

\* the request was answered 201 with the created record and its Location
Answered201 ==
    /\ response.status = 201
    /\ Len(response.body) = 1
    /\ "ID" \in DOMAIN response.body[1]
    /\ response.body[1].ID = NewID
    /\ response.location # Nil

\* db.Create failed for this request
CreateFailed == \E i \in DOMAIN dbLog : dbLog[i].op = "Create" /\ dbLog[i].err # NoError

\* C26: every Post ends as exactly one of a 422 with an error object, a 201
\* with the created record, and a fatal fault with nothing written; a Post
\* whose db.Create failed sets no Location header and writes no 201 and no
\* record; and the handler writes status and body at most once.
C26_SinglePostOutcome ==
    (PostRuns # {} /\ ctl.pc = "done") =>
       /\ IF ctl.panicked THEN response = NoResponse
          ELSE IF Created THEN Answered201
          ELSE Answered422
       /\ CreateFailed =>
             /\ \A i \in DOMAIN response.calls : response.calls[i][1] # "Header"
             /\ JSONCalls(201) = {}
             /\ \A k \in DOMAIN response.body : DOMAIN response.body[k] = {"error"}
       /\ Cardinality({i \in DOMAIN response.calls : response.calls[i][1] = "JSON"}) <= 1

\* db.Create failed with the acceptable error and Post wrote the 422 and then
\* the Location header and the 201 body as well
C26_Witness ==
    /\ PostRuns # {}
    /\ ctl = Returned
    /\ CreateFailed
    /\ JSONCalls(422) # {}
    /\ JSONCalls(201) # {}
    /\ Len(response.body) = 2

----------------------------------------------------------------------------
(* Storage faults *)

\* the errors the database returned to the request's calls of op
ErrorsOf(op) == {dbLog[i].err : i \in {j \in DOMAIN dbLog : dbLog[j].op = op}}

\* C29: in the lookup stage a storage error other than record not found is
\* a fatal fault: the stage panics, its continuation is never called and no
\* 404 (nothing at all) is written.  In Collection record not found from the
\* related-records query is tolerated, 200 with the collection; any other
\* storage error is a fatal fault with no response written.  (No query is
\* made for a nil owner, a fault as well.)
C29_StorageFaultsAreFatal ==
    /\ \A i \in LookupRuns :
          IF ErrorsOf("First") = {}
          THEN response.status = 404 /\ NeverCalled(i) /\ ~regexpID(LookupID)
          ELSE IF ErrorsOf("First") = {NoError}
          THEN ~Wrote(404) /\ trace[i].next
          ELSE IF ErrorsOf("First") = {ErrRecordNotFound}
          THEN response.status = 404 /\ NeverCalled(i) /\ ~ctl.panicked
          ELSE /\ ctl = Panicked
               /\ ~trace[i].next
               /\ i = Len(trace)
               /\ HandlerRuns = {}
               /\ ~Wrote(404)
               /\ response = NoResponse
    /\ \A i \in CollectionRuns :
          IF ErrorsOf("Related") = {}
          THEN /\ (IF build = "part_001" THEN trace[i].model ELSE trace[i].user) = Nil
               /\ ctl = Panicked
               /\ response = NoResponse
          ELSE IF ErrorsOf("Related") \subseteq {NoError, ErrRecordNotFound}
          THEN /\ ctl = Returned
               /\ response.status = 200
               /\ Len(response.body) = 1
               /\ ErrRecordNotFound \in ErrorsOf("Related") => response.body[1] = <<>>
          ELSE /\ ctl = Panicked
               /\ response = NoResponse

\* the lookup of record 1 met a fault of the driver and panicked
C29_Witness ==
    /\ LookupRuns # {}
    /\ LookupID = <<"1">>
    /\ 1 \in Visible(before)
    /\ ErrorsOf("First") = {DriverError}
    /\ ctl = Panicked

----------------------------------------------------------------------------
(* The Record's mutators, called in any order on a Record that Post has     *)
(* bound: s := single(); ctx.BindJSON(s); s.SetOwner(user); ...             *)

\* a stored Resource, as a value that is a DBModel and no *User
AResource == [ZeroResource EXCEPT !.ID = 1]

\* the values SetOwner is called with (resources.User)
Owners == Identities \cup {AResource}

\* the values SetParent is called with (resources.DBModel)
Parents == UserValues \cup {AResource}

\* one call on the Record: what it was called with, what it returned, and
\* the Record before and after
CalledOn(op, arg, result) ==
    [op |-> op, arg |-> arg, err |-> result.err, was |-> record.s, now |-> result.s]

\* s := single(); ctx.BindJSON(s) succeeded: the body may name a UserID
BindFreshRecord ==
    /\ record = Nil
    /\ \E body \in Bodies :
          LET bound == BindJSON(ZeroResource, body)
          IN  /\ ~bound.err
              /\ record' = [s |-> bound.s, calls |-> <<>>]
    /\ UNCHANGED <<ctl, trace, request, response, table, dbLog, before, build,
                   AcceptableError, parked>>

\* s.SetOwner(user)
CallSetOwner ==
    /\ record # Nil
    /\ Len(record.calls) < MaxCalls
    /\ \E user \in Owners :
          LET result == SetOwner(record.s, user)
          IN  record' = [s |-> result.s,
                         calls |-> Append(record.calls,
                                          CalledOn("SetOwner", user, result))]
    /\ UNCHANGED <<ctl, trace, request, response, table, dbLog, before, build,
                   AcceptableError, parked>>

\* s.SetParent(parent)
CallSetParent ==
    /\ record # Nil
    /\ Len(record.calls) < MaxCalls
    /\ \E parent \in Parents :
          LET result == SetParent(record.s, parent)
          IN  record' = [s |-> result.s,
                         calls |-> Append(record.calls,
                                          CalledOn("SetParent", parent, result))]
    /\ UNCHANGED <<ctl, trace, request, response, table, dbLog, before, build,
                   AcceptableError, parked>>

NextRecord ==
    \/ BindFreshRecord
    \/ CallSetOwner
    \/ CallSetParent

SpecRecord == InitPipe /\ [][NextRecord]_vars

\* the identifier of the parent link the Record stores (r.User.ID)
ParentLink(r) == r.User

\* the calls Post makes on the Record it creates: SetOwner(user), then
\* SetParent(parent), both without error
PostSequence ==
    /\ Len(record.calls) = 2
    /\ record.calls[1].op = "SetOwner"
    /\ record.calls[2].op = "SetParent"
    /\ \A k \in 1..2 : record.calls[k].err = "nil"

\* a call that returned an error left the Record as it was
FailedCallsChangeNothing ==
    \A k \in DOMAIN record.calls :
       record.calls[k].err # "nil" => record.calls[k].now = record.calls[k].was

\* C28 as claimed: after any calls of SetOwner and SetParent the Record's
\* OwnerID() is its ParentID() and the id of its parent link; a failed call
\* changes nothing; and after Post's SetOwner(user), SetParent(parent) the
\* owner identifier is the user's and the parent identifier the parent's
C28_OwnerParentAlwaysConsistent ==
    (record # Nil /\ record.calls # <<>>) =>
       /\ OwnerID(record.s) = ParentID(record.s)
       /\ ParentID(record.s) = ParentLink(record.s)
       /\ FailedCallsChangeNothing
       /\ PostSequence =>
             /\ OwnerID(record.s) = GetID(record.calls[1].arg)
             /\ ParentID(record.s) = GetID(record.calls[2].arg)

\* C28: the Record's OwnerID() is always its ParentID(); a call of SetOwner
\* or SetParent that succeeds sets the parent id and the parent link
\* together, and they stay equal from then on, as they do on a Record whose
\* body named no other owner; a failed call changes nothing; and after
\* Post's SetOwner(user), SetParent(parent) owner and parent identifier are
\* both the parent's, the user's only when user and parent share it.
C28_OwnerParentConsistentOnceSet ==
    (record # Nil /\ record.calls # <<>>) =>
       /\ OwnerID(record.s) = ParentID(record.s)
       /\ (\/ \E k \in DOMAIN record.calls : record.calls[k].err = "nil"
           \/ ParentID(record.calls[1].was) = ParentLink(record.calls[1].was))
          => ParentID(record.s) = ParentLink(record.s)
       /\ \A k \in DOMAIN record.calls :
             record.calls[k].err = "nil" =>
                /\ ParentID(record.calls[k].now) = GetID(record.calls[k].arg)
                /\ ParentLink(record.calls[k].now) = GetID(record.calls[k].arg)
       /\ FailedCallsChangeNothing
       /\ PostSequence =>
             /\ OwnerID(record.s) = GetID(record.calls[2].arg)
             /\ ParentID(record.s) = GetID(record.calls[2].arg)
             /\ ParentLink(record.s) = GetID(record.calls[2].arg)
             /\ (OwnerID(record.s) = GetID(record.calls[1].arg))
                   <=> (GetID(record.calls[1].arg) = GetID(record.calls[2].arg))

\* Post's two calls were made for a user and a parent of different
\* identifiers on a Record whose body named the user as its owner
C28_Witness ==
    /\ record # Nil
    /\ PostSequence
    /\ GetID(record.calls[1].arg) # GetID(record.calls[2].arg)
    /\ record.calls[1].was.UserID = GetID(record.calls[1].arg)
    /\ ParentLink(record.s) = GetID(record.calls[2].arg)

----------------------------------------------------------------------------
(* Two requests in flight.  Each has its own gin.Context and its own       *)
(* closures; the database and the package's variables are the process's.   *)
(* One request runs while the other is parked; the scheduler may switch    *)
(* them between any two steps.                                             *)

\* the requests sent concurrently: a POST that binds, GET and DELETE /r/1
ConcurrentRequests ==
    {r \in PostRequests("part_001") :
        r.body = [kind |-> "json", UserID |-> 0, Text |-> "a"]}
    \cup {ResourceRoute([c |-> "ProvideModelForKey", key |-> "id"], h,
                        [id |-> <<"1">>], Nil) : h \in ModelHandlers}

\* the context of the request that is running
Running ==
    [ctl |-> ctl, trace |-> trace, request |-> request, response |-> response,
     dbLog |-> dbLog, before |-> before]

\* the router calls the route's handler with a fresh context
Arrive ==
    /\ ctl.pc = "idle"
    /\ \E r \in ConcurrentRequests :
          /\ request' = r
          /\ ctl' = Invoke(Mount(r))
    /\ trace' = <<>>
    /\ response' = NoResponse
    /\ dbLog' = <<>>
    /\ before' = table
    /\ UNCHANGED <<table, build, AcceptableError, parked, record>>

\* the scheduler parks the running request and runs the other
Switch ==
    /\ parked' = Running
    /\ ctl' = parked.ctl
    /\ trace' = parked.trace
    /\ request' = parked.request
    /\ response' = parked.response
    /\ dbLog' = parked.dbLog
    /\ before' = parked.before
    /\ UNCHANGED <<table, build, AcceptableError, record>>

\* resources.AcceptableError = reflect.TypeOf(resourceError), as the
\* application (TestPostWithAcceptableError) assigns it
SetAcceptableError ==
    /\ AcceptableError = "nil"
    /\ AcceptableError' = TypeOf(HookError)
    /\ UNCHANGED <<ctl, trace, request, response, table, dbLog, before, build,
                   parked, record>>

\* clearResourceErrors: resources.AcceptableError = nil
ClearResourceErrors ==
    /\ AcceptableError # "nil"
    /\ AcceptableError' = "nil"
    /\ UNCHANGED <<ctl, trace, request, response, table, dbLog, before, build,
                   parked, record>>

NextConcurrent ==
    \/ Arrive
    \/ Switch
    \/ SetAcceptableError
    \/ ClearResourceErrors
    \/ ProvideUserModel
    \/ ProvideModelForKeyFunc1
    \/ Post
    \/ PostCreated
    \/ Get
    \/ DeleteHandler

SpecConcurrent == InitPipe /\ [][NextConcurrent]_vars

\* the handler of request c ran, or is about to run, with the identity and
\* the record the stage of the same request resolved
SeesOwnValues(c) ==
    /\ \A i \in DOMAIN c.trace :
          (i > 1 /\ c.trace[i].stage \in TerminalHandlers) =>
             /\ c.trace[i].user = c.trace[i - 1].user
             /\ c.trace[i].model = c.trace[i - 1].model
    /\ (c.ctl.pc = "handler" /\ c.trace # <<>>) =>
          /\ c.ctl.user = c.trace[Len(c.trace)].user
          /\ c.ctl.model = c.trace[Len(c.trace)].model

\* two requests with the same inputs that met the same storage: the same
\* route, parameters and body, the same resolved values, the same table on
\* arrival and the same calls of the database with the same results
SameInputs(a, b) ==
    /\ a.ctl.pc = "done"
    /\ b.ctl.pc = "done"
    /\ a.request = b.request
    /\ a.request # NoRequest
    /\ a.trace[1] = b.trace[1]
    /\ a.before = b.before
    /\ a.dbLog = b.dbLog

\* the same outcome: fault or not, status, writes, and body (the body of a
\* created record carries the identifier the database gave it)
SameOutcome(a, b) ==
    /\ a.ctl = b.ctl
    /\ a.response.status = b.response.status
    /\ a.response.calls = b.response.calls
    /\ (\A k \in DOMAIN a.dbLog : a.dbLog[k].op = "Create" => a.dbLog[k].err # NoError)
          => a.response = b.response

\* C23: requests are isolated.  With two requests in flight in any
\* interleaving, the handler of each sees the identity and the record its
\* own request resolved, and the outcome of a request is determined by its
\* inputs and the storage it meets: two requests with the same inputs and
\* the same storage have the same outcome, whatever was written in the
\* process during or between them.
C23_RequestIsolation ==
    /\ SeesOwnValues(Running)
    /\ SeesOwnValues(parked)
    /\ SameInputs(Running, parked) => SameOutcome(Running, parked)

\* two POSTs of the same body for the same user and parent, db.Create
\* failing alike for both: one panicked, the other was answered 422
C23_Witness ==
    /\ SameInputs(Running, parked)
    /\ request.handler = "Post"
    /\ ctl = Panicked
    /\ parked.ctl = Returned
    /\ parked.response.status = 422
    /\ AcceptableError = "nil"

====
